---------------------------- MODULE Spec2Model ----------------------------
(***************************************************************************)
(* A model of the Checked C temporal-memory-safety passes:                 *)
(*   - CheckedCAddLockToMultiple  (lock insertion for _multiple storage)   *)
(*   - CheckedCFreeFinder         (may-free functions and calls)           *)
(*   - CheckedCSplitBB            (isolate may-free calls in basic blocks) *)
(*   - CheckedCKeyCheckOpt        (redundant key-check removal)            *)
(*   - HarmonizeType              (repair of ill-formed loads and stores)  *)
(* Each pass has its own specification over the shared variables; the      *)
(* variables a specification does not use stay at their initial value.     *)
(***************************************************************************)
EXTENDS Integers, Sequences, FiniteSets, TLC

VARIABLES
    \* ---- lock-insertion pass (CheckedCAddLockToMultiple.cpp)
    mod,        \* the module: [front: entry block of function f, globals: set of globals]
    lpc,        \* position inside runOnModule: "stack", "globals", "ret", "done"
    lrun,       \* which run of the pass is executing (1 or 2)
    lflags,     \* [s, g]: the two booleans runOnModule holds
    lrets,      \* sequence of the values runOnModule returned so far
    lpre,       \* sequence of the modules each run started from
    \* ---- free finder (CheckedCFreeFinder.cpp)
    ffM,            \* the module: [calls: set of call sites, helperDefined]
    FnReaching,     \* function -> the functions it can reach
    FnReached,      \* function -> the functions that can reach it
    workingList,    \* the std::stack of FnReachAnalysis, top last
    visited,        \* functions FnReachAnalysis has visited
    curF,           \* the function whose call-graph node is being walked ("" if none)
    edgesTodo,      \* call-graph edges of curF not yet walked
    visitedCallee,  \* callees of curF already handled
    MayFreeFns,     \* functions that may free
    MayFreeCalls,   \* call sites that may free
    iterTodo,       \* elements the loop over MayFreeFns has still to visit
    fpc,            \* position inside runOnModule
    \* ---- block splitter and check removal (CheckedCSplitBB.cpp, CheckedCKeyCheckOpt.cpp)
    blocks,         \* basic block id -> [insts, succs, preds]
    layouts,        \* per function, the block ids in the order of the function's block list
    splitTodo,      \* ids of the calls of MayFreeCalls SplitBB has not processed yet
    MayFreeBBs,     \* CheckedCSplitBBPass::MayFreeBBs
    BBIn,           \* block id -> checked pointers valid at the beginning of the block
    BBOut,          \* block id -> checked pointers valid at the end of the block
    CheckToDel,     \* ids of the key-check calls scheduled for deletion
    curFn,          \* index of the function the loop of Opt is at
    optPre,         \* the blocks as they were when Opt started
    NumDynamicKeyCheckRemoved,  \* the statistic counter
    numPre,         \* the value of the counter when the current run of Opt started
    passes,         \* the passes the do-while loop of Opt has made for the current function
    orets,          \* the values CheckedCKeyCheckOptPass::runOnModule returned
    opc,            \* position inside the two passes
    \* ---- type harmonization (HarmonizeType.cpp)
    hfn,            \* the function: its instructions in order
    hpre,           \* the function as runOnFunction got it
    illFormedLoads, \* ids of the ill-formed loads still to fix, in order
    illFormedStores,\* ids of the ill-formed stores still to fix, in order
    change,         \* the local of runOnFunction
    hret,           \* the values runOnFunction returned
    hpc             \* position inside runOnFunction

lockVars == <<mod, lpc, lrun, lflags, lrets, lpre>>
ffVars == <<ffM, FnReaching, FnReached, workingList, visited, curF, edgesTodo,
            visitedCallee, MayFreeFns, MayFreeCalls, iterTodo, fpc>>
cfgVars == <<blocks, layouts, splitTodo, MayFreeBBs, BBIn, BBOut, CheckToDel, curFn,
             optPre, NumDynamicKeyCheckRemoved, numPre, passes, orets, opc>>
htVars == <<hfn, hpre, illFormedLoads, illFormedStores, change, hret, hpc>>
vars == <<lockVars, ffVars, cfgVars, htVars>>

-----------------------------------------------------------------------------
(***************************************************************************)
(* Small helpers                                                           *)
(***************************************************************************)
Range(s) == {s[i] : i \in DOMAIN s}

RECURSIVE SeqsUpTo(_, _)
\* all sequences over S of length at most n
SeqsUpTo(S, n) ==
    IF n = 0 THEN {<<>>}
    ELSE LET shorter == SeqsUpTo(S, n - 1)
         IN  shorter \cup {Append(s, x) : s \in {t \in shorter : Len(t) = n - 1}, x \in S}

RECURSIVE SubsetsUpTo(_, _)
\* all subsets of S with at most n elements
SubsetsUpTo(S, n) ==
    IF n = 0 THEN {{}}
    ELSE LET smaller == SubsetsUpTo(S, n - 1)
         IN  smaller \cup {T \cup {x} : T \in smaller, x \in S}

-----------------------------------------------------------------------------
(***************************************************************************)
(* IR for the lock-insertion pass                                          *)
(***************************************************************************)
MaxSlots == 2       \* bound: stack slots in the entry block

\* Types.  A type is a record so that scalar and struct types compare.
ScalarTy(s) == [k |-> "scalar", f |-> <<s>>]
StructTy(fs) == [k |-> "struct", f |-> fs]
Int64Ty == "i64"
InnerTys == {"i32", "mmptr", "mmarrayptr"}

\* Type::isMMSafePointerTy: an _Ptr<T> or _Array_ptr<T> with a key
isMMSafePointerTy(ty) == ty.k = "scalar" /\ ty.f[1] \in {"mmptr", "mmarrayptr"}

\* Operands
NoOpnd == [k |-> "none", n |-> 0, g |-> "", idx |-> 0]
InstOpnd(id) == [k |-> "inst", n |-> id, g |-> "", idx |-> 0]
ConstOpnd(v) == [k |-> "const", n |-> v, g |-> "", idx |-> 0]
GlobalOpnd(name) == [k |-> "global", n |-> 0, g |-> name, idx |-> 0]
\* ConstantExpr::getGetElementPtr(ST, GVWithLock, {0, idx})
ConstGEP(name, i) == [k |-> "cgep", n |-> 0, g |-> name, idx |-> i]

\* Instructions of the entry block
AllocaInst(id, ty, multi, align) ==
    [id |-> id, op |-> "alloca", ty |-> ty, multi |-> multi, align |-> align,
     a |-> NoOpnd, b |-> NoOpnd]
StructGEP(id, base, i) ==
    [id |-> id, op |-> "gep", ty |-> ScalarTy("ptr"), multi |-> FALSE, align |-> 0,
     a |-> InstOpnd(base), b |-> ConstOpnd(i)]
StoreInst(id, val, ptr) ==
    [id |-> id, op |-> "store", ty |-> ScalarTy("void"), multi |-> FALSE, align |-> 0,
     a |-> val, b |-> ptr]
\* any instruction that uses an address (a load, a store of 42, a call argument)
UserInst(id, opnd) ==
    [id |-> id, op |-> "user", ty |-> ScalarTy("void"), multi |-> FALSE, align |-> 0,
     a |-> opnd, b |-> NoOpnd]


\* Globals
GlobalVariable(name, ty, multi, linkage, init, isConst, tls, extInit, as, align) ==
    [name |-> name, ty |-> ty, multi |-> multi, linkage |-> linkage, init |-> init,
     isConst |-> isConst, tls |-> tls, extInit |-> extInit, as |-> as, align |-> align]

\* GlobalVariable::hasInitializer: a definition carries an initializer
hasInitializer(gv) == gv.init # <<>>
hasCommonLinkage(gv) == gv.linkage = "common"

MaxId(front) == IF front = <<>> THEN 0
                ELSE CHOOSE m \in {front[i].id : i \in DOMAIN front} :
                        \A i \in DOMAIN front : front[i].id <= m

\* Value::replaceAllUsesWith on the operands of one instruction
ReplaceOpnd(inst, old, new) ==
    [inst EXCEPT !.a = IF @ = old THEN new ELSE @,
                 !.b = IF @ = old THEN new ELSE @]

\* the position of the instruction with the given id
IndexOfId(front, id) == CHOOSE i \in DOMAIN front : front[i].id = id

\* Collect all _multiple stack variables of the front basic block, in order.
MultipleStackVars(front) ==
    LET idx == {i \in DOMAIN front : front[i].op = "alloca" /\ front[i].multi}
        RECURSIVE Ordered(_)
        Ordered(i) == IF i > Len(front) THEN <<>>
                      ELSE IF i \in idx THEN <<front[i].id>> \o Ordered(i + 1)
                      ELSE Ordered(i + 1)
    IN  Ordered(1)

\* Mutant: no padding word and no 16-byte alignment for a safe-pointer slot.
NewSlotInsts_NoPad(alloca, n) ==
    << AllocaInst(n, StructTy(<<Int64Ty, alloca.ty.f[1]>>), FALSE, 0),
       StructGEP(n + 1, n, 1),
       StructGEP(n + 2, n, 0),
       StoreInst(n + 3, ConstOpnd(1), InstOpnd(n + 2)) >>

\* Mutant: the lock of a stack object is initialized to 2, the lock of globals.
NewSlotInsts_LockTwo(alloca, n) ==
    LET T == alloca.ty.f[1]
    IN  IF isMMSafePointerTy(alloca.ty)
        THEN << AllocaInst(n, StructTy(<<Int64Ty, Int64Ty, T>>), FALSE, 16),
                StructGEP(n + 1, n, 2),
                StructGEP(n + 2, n, 1),
                StoreInst(n + 3, ConstOpnd(2), InstOpnd(n + 2)) >>
        ELSE << AllocaInst(n, StructTy(<<Int64Ty, T>>), FALSE, 0),
                StructGEP(n + 1, n, 1),
                StructGEP(n + 2, n, 0),
                StoreInst(n + 3, ConstOpnd(2), InstOpnd(n + 2)) >>

\* The instructions the IRBuilder creates before one _multiple alloca, and the
\* pointer to the stack variable inside the new struct (VarPtr).
NewSlotInsts(alloca, n) ==
    LET T == alloca.ty.f[1]
    IN  IF isMMSafePointerTy(alloca.ty)
        THEN << AllocaInst(n, StructTy(<<Int64Ty, Int64Ty, T>>), FALSE, 16),
                StructGEP(n + 1, n, 2),
                StructGEP(n + 2, n, 1),
                StoreInst(n + 3, ConstOpnd(1), InstOpnd(n + 2)) >>
        ELSE << AllocaInst(n, StructTy(<<Int64Ty, T>>), FALSE, 0),
                StructGEP(n + 1, n, 1),
                StructGEP(n + 2, n, 0),
                StoreInst(n + 3, ConstOpnd(1), InstOpnd(n + 2)) >>

\* Mutant: the uses are replaced but the old alloca is left in the block.
RewriteSlot_NoErase(front, id) ==
    LET p      == IndexOfId(front, id)
        n      == MaxId(front) + 1
        new    == NewSlotInsts(front[p], n)
        VarPtr == InstOpnd(n + 1)
        kept   == SubSeq(front, 1, p - 1) \o new \o SubSeq(front, p, Len(front))
    IN  [i \in DOMAIN kept |-> ReplaceOpnd(kept[i], InstOpnd(id), VarPtr)]

\* One iteration of the loop over MultipleStackVars: build the struct before the
\* alloca, then ReplaceInstWithValue(alloca, VarPtr): replace all uses, erase it.
RewriteSlot(front, id) ==
    LET p      == IndexOfId(front, id)
        n      == MaxId(front) + 1
        new    == NewSlotInsts(front[p], n)
        VarPtr == InstOpnd(n + 1)
        kept   == SubSeq(front, 1, p - 1) \o new \o SubSeq(front, p + 1, Len(front))
    IN  [i \in DOMAIN kept |-> ReplaceOpnd(kept[i], InstOpnd(id), VarPtr)]

RECURSIVE RewriteSlots(_, _)
RewriteSlots(front, ids) ==
    IF ids = <<>> THEN front
    ELSE RewriteSlots(RewriteSlot(front, Head(ids)), Tail(ids))

\* AllocateLockForMultipleStackVars: [front: the new entry block, ret: the value returned]
AllocateLockForMultipleStackVars(front) ==
    LET vars_ == MultipleStackVars(front)
    IN  [front |-> RewriteSlots(front, vars_), ret |-> (vars_ = <<>>)]

\* Mutant: the linkage of the original is copied without the promotion.
GVWithLock_KeepCommon(gv) ==
    LET T  == gv.ty.f[1]
        ST == IF isMMSafePointerTy(gv.ty) THEN StructTy(<<Int64Ty, Int64Ty, T>>)
              ELSE StructTy(<<Int64Ty, T>>)
        NewGVInit == IF ~hasInitializer(gv) THEN <<>>
                     ELSE IF isMMSafePointerTy(gv.ty) THEN <<"0", "2">> \o gv.init
                     ELSE <<"2">> \o gv.init
    IN  GlobalVariable(gv.name \o "_multiple", ST, FALSE, gv.linkage, NewGVInit,
                       gv.isConst, FALSE, gv.extInit, gv.as, 16)

\* The global that replaces one _multiple global, after the linkage promotion.
GVWithLock(gv) ==
    LET T  == gv.ty.f[1]
        lk == IF hasCommonLinkage(gv) THEN "external" ELSE gv.linkage
        ST == IF isMMSafePointerTy(gv.ty) THEN StructTy(<<Int64Ty, Int64Ty, T>>)
              ELSE StructTy(<<Int64Ty, T>>)
        NewGVInit == IF ~hasInitializer(gv) THEN <<>>
                     ELSE IF isMMSafePointerTy(gv.ty) THEN <<"0", "2">> \o gv.init
                     ELSE <<"2">> \o gv.init
    IN  GlobalVariable(gv.name \o "_multiple", ST, FALSE, lk, NewGVInit,
                       gv.isConst, FALSE, gv.extInit, gv.as, 16)

\* the GEP that replaces the uses of a _multiple global
NewGVGEP(gv) == ConstGEP(gv.name \o "_multiple", IF isMMSafePointerTy(gv.ty) THEN 2 ELSE 1)

MultipleGV(globals) == {gv \in globals : gv.multi}

RECURSIVE ReplaceGlobalUses(_, _)
ReplaceGlobalUses(front, gvs) ==
    IF gvs = {} THEN front
    ELSE LET gv == CHOOSE g \in gvs : TRUE
         IN  ReplaceGlobalUses(
                [i \in DOMAIN front |->
                    ReplaceOpnd(front[i], GlobalOpnd(gv.name), NewGVGEP(gv))],
                gvs \ {gv})

\* AllocateLockForMultipleGlobals: [m: the new module, ret: the value returned]
AllocateLockForMultipleGlobals(m) ==
    LET gvs == MultipleGV(m.globals)
    IN  [m   |-> [front   |-> ReplaceGlobalUses(m.front, gvs),
                  globals |-> (m.globals \ gvs) \cup {GVWithLock(gv) : gv \in gvs}],
         ret |-> (gvs = {})]

\* ---- the module the pass is given
NumRuns == 2        \* bound: how often the pass runs on the module

SlotKinds == InnerTys \X BOOLEAN

\* entry block: the allocas, then one user of each alloca, then one user of each global
FrontOf(slots, gnames) ==
    LET n  == Len(slots)
        gs == CHOOSE q \in [1..Cardinality(gnames) -> gnames] :
                 \A i, j \in DOMAIN q : i # j => q[i] # q[j]
    IN  [i \in 1..n |-> AllocaInst(i, ScalarTy(slots[i][1]), slots[i][2], 0)]
        \o [i \in 1..n |-> UserInst(n + i, InstOpnd(i))]
        \o [i \in 1..Cardinality(gnames) |-> UserInst(2 * n + i, GlobalOpnd(gs[i]))]

\* linkage and initializer come together: a common global is zero-initialized,
\* an external global without initializer is a declaration
LinkInit == {<<"common", <<"zeroinitializer">>>>, <<"external", <<"init">>>>,
             <<"external", <<>>>>, <<"internal", <<"init">>>>}
\* constness, external-initialization flag and address space of the original
Attrs == {<<FALSE, FALSE, 0>>, <<TRUE, TRUE, 1>>}

GChoices ==
    {GlobalVariable("g", ScalarTy(t), m, li[1], li[2], at[1], tls, at[2], at[3], 0) :
        t \in InnerTys, m \in BOOLEAN, li \in LinkInit, at \in Attrs, tls \in BOOLEAN}
HChoices ==
    {GlobalVariable("h", ScalarTy("i32"), TRUE, "common", <<"zeroinitializer">>,
                    FALSE, FALSE, FALSE, 0, 0),
     GlobalVariable("h", ScalarTy("mmptr"), FALSE, "external", <<"init">>,
                    TRUE, FALSE, FALSE, 0, 0)}

Modules ==
    {[front |-> FrontOf(slots, {gv.name : gv \in gs}), globals |-> gs] :
        slots \in SeqsUpTo(SlotKinds, MaxSlots),
        gs \in {g1 \cup g2 : g1 \in {{}} \cup {{g} : g \in GChoices},
                             g2 \in {{}} \cup {{h} : h \in HChoices}}}

LockStart ==
    /\ mod \in Modules
    /\ lpc = "stack"
    /\ lrun = 1
    /\ lflags = [s |-> FALSE, g |-> FALSE]
    /\ lrets = <<>>
    /\ lpre = <<mod>>

\* bool hasMultipleStackVars = AllocateLockForMultipleStackVars(M);
LockStack ==
    /\ lpc = "stack"
    /\ LET r == AllocateLockForMultipleStackVars(mod.front)
       IN  /\ mod' = [mod EXCEPT !.front = r.front]
           /\ lflags' = [lflags EXCEPT !.s = r.ret]
    /\ lpc' = "globals"
    /\ UNCHANGED <<lrun, lrets, lpre>>

\* bool hasMultipleGlobals = AllocateLockForMultipleGlobals(M);
LockGlobals ==
    /\ lpc = "globals"
    /\ LET r == AllocateLockForMultipleGlobals(mod)
       IN  /\ mod' = r.m
           /\ lflags' = [lflags EXCEPT !.g = r.ret]
    /\ lpc' = "ret"
    /\ UNCHANGED <<lrun, lrets, lpre>>

\* return hasMultipleStackVars || hasMultipleGlobals;
LockReturn ==
    /\ lpc = "ret"
    /\ lrets' = Append(lrets, lflags.s \/ lflags.g)
    /\ lpc' = "done"
    /\ UNCHANGED <<mod, lrun, lflags, lpre>>

\* the driver runs the pass again on the module it got back
LockRunAgain ==
    /\ lpc = "done"
    /\ lrun < NumRuns
    /\ lrun' = lrun + 1
    /\ lpre' = Append(lpre, mod)
    /\ lpc' = "stack"
    /\ lflags' = [s |-> FALSE, g |-> FALSE]
    /\ UNCHANGED <<mod, lrets>>

LockSteps == LockStack \/ LockGlobals \/ LockReturn \/ LockRunAgain

\* the pass is not running (the initial value under the other specifications)
LockIdle ==
    /\ mod = [front |-> <<>>, globals |-> {}]
    /\ lpc = "idle"
    /\ lrun = 0
    /\ lflags = [s |-> FALSE, g |-> FALSE]
    /\ lrets = <<>>
    /\ lpre = <<>>

-----------------------------------------------------------------------------
(***************************************************************************)
(* Properties of the lock-insertion pass (checked under SpecLock)          *)
(***************************************************************************)
HasMultipleStorage(m) ==
    \/ \E i \in DOMAIN m.front : m.front[i].op = "alloca" /\ m.front[i].multi
    \/ \E gv \in m.globals : gv.multi

\* C8: runOnModule returns true if and only if the run changed the module,
\* i.e. iff the module it was given held a _multiple stack slot or global.
C8_ReturnsTrueIffChanged ==
    lpc = "done" =>
        /\ lrets[lrun] = (mod # lpre[lrun])
        /\ lrets[lrun] = HasMultipleStorage(lpre[lrun])

\* C9: on a module with _multiple storage the first run changes the module and
\* every later run leaves it unchanged, because nothing the pass creates is
\* _multiple qualified.
C9_Idempotent ==
    lpc = "done" =>
        /\ (lrun = 1 /\ HasMultipleStorage(lpre[1])) => mod # lpre[1]
        /\ ~HasMultipleStorage(mod)
        /\ lrun >= 2 => mod = lpre[lrun]

C9_Witness ==
    /\ lpc = "done" /\ lrun = 2
    /\ HasMultipleStorage(lpre[1])
    /\ lpre[2] # lpre[1] /\ mod = lpre[2]

\* the instruction of a block with the given id, as a set (empty when erased)
InstsWithId(front, id) == {front[i] : i \in {j \in DOMAIN front : front[j].id = id}}

\* the payload address of a rewritten slot of inner type T: a GEP to the last
\* field of a fresh, not _multiple alloca of the lock struct, into whose lock
\* field the instruction sequence stores
IsPayloadAddress(front, opnd, T, safe) ==
    /\ opnd.k = "inst"
    /\ \E g \in InstsWithId(front, opnd.n) :
        /\ g.op = "gep"
        /\ g.b = ConstOpnd(IF safe THEN 2 ELSE 1)
        /\ \E na \in InstsWithId(front, g.a.n) :
            /\ na.op = "alloca" /\ ~na.multi
            /\ na.ty = (IF safe THEN StructTy(<<Int64Ty, Int64Ty, T>>)
                        ELSE StructTy(<<Int64Ty, T>>))
            /\ safe => na.align = 16
            /\ \E lg \in Range(front), st \in Range(front) :
                /\ lg.op = "gep" /\ lg.a = InstOpnd(na.id)
                /\ lg.b = ConstOpnd(IF safe THEN 1 ELSE 0)
                /\ st.op = "store" /\ st.b = InstOpnd(lg.id)

\* C10: after the stack rewrite every _multiple slot of type T is replaced by a
\* slot of type {i64, T} (lock in field 0, payload in field 1), or of type
\* {i64, i64, T} aligned to 16 (lock in field 1, payload in field 2) when T is a
\* safe pointer; every former use of the slot uses the payload address, the old
\* slot is erased and nothing refers to it.
C10_StackRewrite ==
    (lrun = 1 /\ lpc # "stack") =>
        LET old == lpre[1].front
        IN  \A i \in DOMAIN old :
                (old[i].op = "alloca" /\ old[i].multi) =>
                    /\ InstsWithId(mod.front, old[i].id) = {}
                    /\ \A x \in Range(mod.front) :
                          x.a # InstOpnd(old[i].id) /\ x.b # InstOpnd(old[i].id)
                    /\ \A u \in Range(old) :
                          (u.op = "user" /\ u.a = InstOpnd(old[i].id)) =>
                             \E v \in InstsWithId(mod.front, u.id) :
                                IsPayloadAddress(mod.front, v.a, old[i].ty.f[1],
                                                 isMMSafePointerTy(old[i].ty))

C10_Witness ==
    /\ lrun = 1 /\ lpc = "globals"
    /\ \E i, j \in DOMAIN lpre[1].front :
          LET x == lpre[1].front[i]
              y == lpre[1].front[j]
          IN  /\ x.op = "alloca" /\ x.multi /\ isMMSafePointerTy(x.ty)
              /\ y.op = "alloca" /\ y.multi /\ ~isMMSafePointerTy(y.ty)

\* the index of an instruction in the block
IndexIn(front, inst) == CHOOSE i \in DOMAIN front : front[i] = inst

\* the _multiple allocas of a block
MultipleAllocas(front) == {x \in Range(front) : x.op = "alloca" /\ x.multi}

\* the allocas of a lock struct in a block
LockStructAllocas(front) == {x \in Range(front) : x.op = "alloca" /\ x.ty.k = "struct"}

\* the constant 1 is stored into the lock field of the struct alloca na before
\* any instruction that uses the address of its payload field
LockSetBeforeUse(front, na) ==
    LET safe == Len(na.ty.f) = 3
    IN  \E lg \in Range(front), st \in Range(front) :
            /\ lg.op = "gep" /\ lg.a = InstOpnd(na.id)
            /\ lg.b = ConstOpnd(IF safe THEN 1 ELSE 0)
            /\ st.op = "store" /\ st.a = ConstOpnd(1) /\ st.b = InstOpnd(lg.id)
            /\ \A pg \in Range(front), x \in Range(front) :
                  (/\ pg.op = "gep" /\ pg.a = InstOpnd(na.id)
                   /\ pg.b = ConstOpnd(IF safe THEN 2 ELSE 1)
                   /\ x.op # "gep"
                   /\ (x.a = InstOpnd(pg.id) \/ x.b = InstOpnd(pg.id)))
                  => IndexIn(front, st) < IndexIn(front, x)

\* the initializer the claim describes for the replacement of a global
ExpectedInit(gv) ==
    IF ~hasInitializer(gv) THEN <<>>
    ELSE IF isMMSafePointerTy(gv.ty) THEN <<"0", "2">> \o gv.init
    ELSE <<"2">> \o gv.init

\* the globals of a module with the given name
GlobalsNamed(m, name) == {x \in m.globals : x.name = name}

\* C11: after the pass every rewritten stack object has the constant 1 stored
\* into its lock field in the entry block before any instruction that uses the
\* payload address; the replacement of a global with an initializer starts with
\* lock 2 (after a padding word 0 in the safe-pointer layout) followed by the
\* original initializer, and the replacement of a global without initializer
\* has no initializer.
C11_InitialLockValues ==
    (lrun = 1 /\ lpc \in {"ret", "done"}) =>
        /\ Cardinality(LockStructAllocas(mod.front))
              = Cardinality(MultipleAllocas(lpre[1].front))
        /\ \A na \in LockStructAllocas(mod.front) : LockSetBeforeUse(mod.front, na)
        /\ \A gv \in MultipleGV(lpre[1].globals) :
              \E n \in GlobalsNamed(mod, gv.name \o "_multiple") : n.init = ExpectedInit(gv)

\* the pass has rewritten a stack slot, a global with an initializer and of
\* safe-pointer type, and a global that is zero-initialized
C11_Witness ==
    /\ lrun = 1 /\ lpc = "done"
    /\ MultipleAllocas(lpre[1].front) # {}
    /\ \E g1, g2 \in MultipleGV(lpre[1].globals) :
        /\ isMMSafePointerTy(g1.ty) /\ g1.init = <<"init">>
        /\ ~isMMSafePointerTy(g2.ty) /\ hasInitializer(g2)

\* C12: after the pass a _multiple global g is gone and a global g_multiple of
\* the lock-struct type exists, aligned to 16, with the constness, address space
\* and external-initialization flag of g, not thread-local, with the linkage of
\* g except that common became external; every former use of g is the constant
\* GEP to the payload field (index 1, or 2 for a safe pointer).
C12_GlobalRewrite ==
    (lrun = 1 /\ lpc \in {"ret", "done"}) =>
        \A gv \in MultipleGV(lpre[1].globals) :
            LET safe == isMMSafePointerTy(gv.ty)
                T    == gv.ty.f[1]
            IN  /\ GlobalsNamed(mod, gv.name) = {}
                /\ Cardinality(GlobalsNamed(mod, gv.name \o "_multiple")) = 1
                /\ \A n \in GlobalsNamed(mod, gv.name \o "_multiple") :
                    /\ n.ty = (IF safe THEN StructTy(<<Int64Ty, Int64Ty, T>>)
                               ELSE StructTy(<<Int64Ty, T>>))
                    /\ n.align = 16
                    /\ n.isConst = gv.isConst /\ n.as = gv.as /\ n.extInit = gv.extInit
                    /\ ~n.tls /\ ~n.multi
                    /\ n.linkage = (IF gv.linkage = "common" THEN "external" ELSE gv.linkage)
                /\ \A i \in DOMAIN lpre[1].front :
                      lpre[1].front[i].a = GlobalOpnd(gv.name) =>
                          \A v \in InstsWithId(mod.front, lpre[1].front[i].id) :
                              v.a = ConstGEP(gv.name \o "_multiple", IF safe THEN 2 ELSE 1)
                /\ \A x \in Range(mod.front) :
                      x.a # GlobalOpnd(gv.name) /\ x.b # GlobalOpnd(gv.name)

\* the pass has replaced a used _multiple global of common linkage and a used
\* _multiple global with attributes other than the defaults
C12_Witness ==
    /\ lrun = 1 /\ lpc = "done"
    /\ \E g1, g2 \in MultipleGV(lpre[1].globals) :
        /\ g1.linkage = "common"
        /\ g2.isConst /\ g2.as = 1 /\ g2.extInit
        /\ \E x \in Range(mod.front) : x.a = NewGVGEP(g2)

\* C13: when the module holds a thread-local _multiple global the pass does not
\* return normally and leaves the module as it was: no global is replaced and
\* no stack slot is rewritten.
C13_ThreadLocalRejected ==
    (lrun = 1 /\ \E gv \in MultipleGV(lpre[1].globals) : gv.tls) =>
        (mod = lpre[1] /\ lpc \notin {"ret", "done"})

-----------------------------------------------------------------------------
(***************************************************************************)
(* Free finder (CheckedCFreeFinder.cpp)                                    *)
(***************************************************************************)
MaxCalls == 4       \* bound: call sites in the module

\* The functions of the module.  The user functions have bodies; free and
\* malloc are declarations; the key-check helper is defined or only declared.
UserFns == {"main", "f", "g", "h"}
KeyCheckFn == "MMPtrKeyCheck"
ModuleName == "m"
DeclFns == {"free", "malloc"}
AllFns == UserFns \cup DeclFns \cup {KeyCheckFn}
NullFn == "?"       \* CallGraphNode::getFunction() == NULL: an indirect call
NoFn == ""

\* The whitelist of functions that will not free heap memory, with the two
\* names FindMayFreeCalls inserts for this module.
MayFreeFnWL ==
    {"malloc", "mm_alloc", "mm_array_alloc", "printf", "abort", "exit", "srand",
     "atoi", "atol"}
    \cup {ModuleName \o "_MMPtrKeyCheck", ModuleName \o "_MMArrayPtrKeyCheck"}

\* StringRef::contains("PtrKeyCheck") on the names that occur in a module
ContainsPtrKeyCheck(name) ==
    name \in {"MMPtrKeyCheck", "MMArrayPtrKeyCheck",
              ModuleName \o "_MMPtrKeyCheck", ModuleName \o "_MMArrayPtrKeyCheck"}

isDeclaration(m, fn) == fn \in DeclFns \/ (fn = KeyCheckFn /\ ~m.helperDefined)

\* the functions FnReachAnalysis and FindMayFreeCalls do not skip
Scanned(m) == {fn \in AllFns : ~isDeclaration(m, fn) /\ ~ContainsPtrKeyCheck(fn)}

\* A call site: the function it is in, its callee (NullFn when indirect) and a
\* function whose address it passes as an argument (NoFn when none).
CallSite(caller, callee, arg) == [caller |-> caller, callee |-> callee, arg |-> arg]

\* CG[F]->begin() .. end(): the call sites of F
CGEdges(m, F) == {c \in m.calls : c.caller = F}

\* for (Function &F : M): the order of the functions in the module
FnOrder == <<"main", "f", "g", "h", "MMPtrKeyCheck", "free", "malloc">>

\* the stack after the first loop of FnReachAnalysis (top is the last element)
RECURSIVE InitialWorkingList(_, _)
InitialWorkingList(m, fns) ==
    IF fns = <<>> THEN <<>>
    ELSE IF isDeclaration(m, Head(fns)) \/ ContainsPtrKeyCheck(Head(fns))
         THEN InitialWorkingList(m, Tail(fns))
         ELSE <<Head(fns)>> \o InitialWorkingList(m, Tail(fns))

\* do { F = top; pop } while (visited(F) && !empty): [F, rest]
RECURSIVE PopUnvisited(_, _)
PopUnvisited(wl, vis) ==
    LET F    == wl[Len(wl)]
        rest == SubSeq(wl, 1, Len(wl) - 1)
    IN  IF F \in vis /\ rest # <<>> THEN PopUnvisited(rest, vis)
        ELSE [F |-> F, rest |-> rest]

\* Mutant: the update that joins the callers of F with the callees of callee
\* (lines 754-759) is left out.
UpdateReach_NoJoin(reaching, reached, F, callee) ==
    LET r1 == [reaching EXCEPT ![F] = @ \cup {callee}]
        d1 == [reached EXCEPT ![callee] = @ \cup {F}]
        r2 == [x \in AllFns |-> IF x \in d1[F] THEN r1[x] \cup {callee} ELSE r1[x]]
        d2 == [d1 EXCEPT ![callee] = @ \cup d1[F]]
        r3 == [r2 EXCEPT ![F] = @ \cup r2[callee]]
        d3 == [y \in AllFns |-> IF y \in r2[callee] THEN d2[y] \cup {F} ELSE d2[y]]
    IN  [reaching |-> r3, reached |-> d3]

\* Update the function-reach database for one edge F -> callee (lines 740-759).
\* The loops insert only elements already present into a set they iterate, so
\* the sets they iterate are the sets as they stand when each loop starts.
UpdateReach(reaching, reached, F, callee) ==
    LET \* FnReaching[F].insert(callee); FnReached[callee].insert(F);
        r1 == [reaching EXCEPT ![F] = @ \cup {callee}]
        d1 == [reached EXCEPT ![callee] = @ \cup {F}]
        \* All functions that can reach F can reach callee.
        r2 == [x \in AllFns |-> IF x \in d1[F] THEN r1[x] \cup {callee} ELSE r1[x]]
        d2 == [d1 EXCEPT ![callee] = @ \cup d1[F]]
        \* All functions reachable from callee can be reached by F.
        r3 == [r2 EXCEPT ![F] = @ \cup r2[callee]]
        d3 == [y \in AllFns |-> IF y \in r2[callee] THEN d2[y] \cup {F} ELSE d2[y]]
        \* All functions that can reach F can reach all functions reachable from callee.
        r4 == [x \in AllFns |-> IF x \in d3[F] THEN r3[x] \cup r3[callee] ELSE r3[x]]
        d4 == [y \in AllFns |-> IF y \in r3[callee] THEN d3[y] \cup d3[F] ELSE d3[y]]
    IN  [reaching |-> r4, reached |-> d4]

\* ---- the module the analysis is given
\* calls between user functions and calls to free, from every user function;
\* indirect calls, calls to whitelisted malloc (some passing the address of a
\* function), calls to and from the key-check helper
CallKinds ==
    {CallSite(c, t, NoFn) : c \in UserFns, t \in UserFns \cup {"free"}}
    \cup {CallSite(c, NullFn, NoFn) : c \in {"main", "f"}}
    \cup {CallSite(c, KeyCheckFn, NoFn) : c \in {"main", "f"}}
    \cup {CallSite("main", "malloc", a) : a \in {NoFn, "f", "g"}}
    \cup {CallSite(KeyCheckFn, t, NoFn) : t \in {"free", "f"}}

\* the helper has a body when it holds a call; a helper nobody mentions is absent
HelperChoices(cs) ==
    IF \E c \in cs : c.caller = KeyCheckFn THEN {TRUE}
    ELSE IF \E c \in cs : c.callee = KeyCheckFn THEN BOOLEAN
    ELSE {FALSE}

\* a module: at most MaxCalls call sites, and whether the helper has a body
FFStart ==
    /\ \E cs \in SubsetsUpTo(CallKinds, MaxCalls) :
        \E hd \in HelperChoices(cs) : ffM = [calls |-> cs, helperDefined |-> hd]
    /\ FnReaching = [x \in AllFns |-> {}]
    /\ FnReached = [x \in AllFns |-> {}]
    /\ workingList = InitialWorkingList(ffM, FnOrder)
    /\ visited = {}
    /\ curF = NoFn
    /\ edgesTodo = {}
    /\ visitedCallee = {}
    /\ MayFreeFns = {}
    /\ MayFreeCalls = {}
    /\ iterTodo = {}
    /\ fpc = "reach"

FFIdle ==
    /\ ffM = [calls |-> {}, helperDefined |-> FALSE]
    /\ FnReaching = [x \in AllFns |-> {}]
    /\ FnReached = [x \in AllFns |-> {}]
    /\ workingList = <<>>
    /\ visited = {}
    /\ curF = NoFn
    /\ edgesTodo = {}
    /\ visitedCallee = {}
    /\ MayFreeFns = {}
    /\ MayFreeCalls = {}
    /\ iterTodo = {}
    /\ fpc = "idle"

\* FnReachAnalysis: take the next unvisited function off the stack (lines 715-723)
FnReachPop ==
    /\ fpc = "reach" /\ curF = NoFn /\ workingList # <<>>
    /\ LET p == PopUnvisited(workingList, visited)
       IN  /\ workingList' = p.rest
           /\ IF p.F \in visited
              THEN \* if (visited.find(F) != visited.end()) return;
                   /\ fpc' = "direct"
                   /\ UNCHANGED <<visited, curF, edgesTodo>>
              ELSE /\ visited' = visited \cup {p.F}
                   /\ edgesTodo' = CGEdges(ffM, p.F)
                   /\ curF' = IF CGEdges(ffM, p.F) = {} THEN NoFn ELSE p.F
                   /\ fpc' = fpc
    /\ visitedCallee' = {}
    /\ UNCHANGED <<ffM, FnReaching, FnReached, MayFreeFns, MayFreeCalls, iterTodo>>

\* FnReachAnalysis: one iteration of the loop over CG[F] (lines 724-762)
FnReachEdge ==
    /\ fpc = "reach" /\ curF # NoFn
    /\ \E e \in edgesTodo :
        LET callee == e.callee
            left   == edgesTodo \ {e}
        IN  /\ edgesTodo' = left
            /\ curF' = IF left = {} THEN NoFn ELSE curF
            /\ IF callee \in visitedCallee
               THEN UNCHANGED <<visitedCallee, FnReaching, FnReached, workingList>>
               ELSE /\ visitedCallee' = visitedCallee \cup {callee}
                    /\ IF callee = NullFn \/ isDeclaration(ffM, callee)
                          \/ ContainsPtrKeyCheck(callee)
                       THEN UNCHANGED <<FnReaching, FnReached, workingList>>
                       ELSE LET u == UpdateReach(FnReaching, FnReached, curF, callee)
                            IN  /\ FnReaching' = u.reaching
                                /\ FnReached' = u.reached
                                /\ workingList' = Append(workingList, callee)
    /\ UNCHANGED <<ffM, visited, MayFreeFns, MayFreeCalls, iterTodo, fpc>>

\* FnReachAnalysis returns when the stack is empty (line 715)
FnReachReturn ==
    /\ fpc = "reach" /\ curF = NoFn /\ workingList = <<>>
    /\ fpc' = "direct"
    /\ UNCHANGED <<ffM, FnReaching, FnReached, workingList, visited, curF, edgesTodo,
                   visitedCallee, MayFreeFns, MayFreeCalls, iterTodo>>

\* a call FindMayFreeCalls' first loop classifies as may-free (lines 801-802)
DirectlyMayFree(m, c) ==
    \/ c.callee = NullFn
    \/ (isDeclaration(m, c.callee) /\ c.callee \notin MayFreeFnWL)

\* FindMayFreeCalls: the loop over the callers (lines 793-810)
FindDirect ==
    /\ fpc = "direct"
    /\ LET direct == {c \in ffM.calls : c.caller \in Scanned(ffM) /\ DirectlyMayFree(ffM, c)}
       IN  /\ MayFreeCalls' = MayFreeCalls \cup direct
           /\ MayFreeFns' = MayFreeFns \cup {c.caller : c \in direct}
           /\ iterTodo' = MayFreeFns \cup {c.caller : c \in direct}
    /\ fpc' = "indirect"
    /\ UNCHANGED <<ffM, FnReaching, FnReached, workingList, visited, curF, edgesTodo,
                   visitedCallee>>

\* FindMayFreeCalls: one iteration of the loop over MayFreeFns (lines 813-817).
\* The body inserts into the unordered_set the loop iterates.  An insertion of a
\* new element may rehash the set; a rehash invalidates the loop's iterator, and
\* the walk that continues from it reaches an arbitrary part of the relinked
\* element list.  Without a rehash the new elements land before or after the
\* iterator.
FindIndirectStep ==
    /\ fpc = "indirect" /\ iterTodo # {}
    /\ \E x \in iterTodo :
        LET grown == MayFreeFns \cup FnReached[x]
            new   == FnReached[x] \ MayFreeFns
        IN  /\ MayFreeFns' = grown
            /\ IF new = {}
               THEN iterTodo' = iterTodo \ {x}
               ELSE \E rehash \in BOOLEAN :
                       IF rehash
                       THEN iterTodo' \in SUBSET (grown \ {x})
                       ELSE \E S \in SUBSET new : iterTodo' = (iterTodo \ {x}) \cup S
    /\ UNCHANGED <<ffM, FnReaching, FnReached, workingList, visited, curF, edgesTodo,
                   visitedCallee, MayFreeCalls, fpc>>

\* the loop over MayFreeFns ends
FindIndirectEnd ==
    /\ fpc = "indirect" /\ iterTodo = {}
    /\ fpc' = "calls"
    /\ UNCHANGED <<ffM, FnReaching, FnReached, workingList, visited, curF, edgesTodo,
                   visitedCallee, MayFreeFns, MayFreeCalls, iterTodo>>

\* F->users() that are CallBase: the calls that have F as an operand, as the
\* callee or as an argument
CallBaseUsers(m, F) == {c \in m.calls : c.callee = F \/ c.arg = F}

\* FindMayFreeCalls: find calls to the may-free functions (lines 841-847);
\* runOnModule then returns false
FindCalls ==
    /\ fpc = "calls"
    /\ MayFreeCalls' = MayFreeCalls \cup UNION {CallBaseUsers(ffM, F) : F \in MayFreeFns}
    /\ fpc' = "done"
    /\ UNCHANGED <<ffM, FnReaching, FnReached, workingList, visited, curF, edgesTodo,
                   visitedCallee, MayFreeFns, iterTodo>>

FFSteps ==
    \/ FnReachPop \/ FnReachEdge \/ FnReachReturn
    \/ FindDirect \/ FindIndirectStep \/ FindIndirectEnd \/ FindCalls

-----------------------------------------------------------------------------
(***************************************************************************)
(* Properties of the free finder (checked under SpecFF)                    *)
(***************************************************************************)
\* direct calls from a defined non-helper function to a defined non-helper function
DirectCallees(m, f) ==
    {c.callee : c \in {d \in m.calls : d.caller = f /\ f \in Scanned(m)
                                        /\ d.callee \in Scanned(m)}}

RECURSIVE CalleeClosure(_, _)
CalleeClosure(m, S) ==
    LET n == S \cup UNION {DirectCallees(m, x) : x \in S}
    IN  IF n = S THEN S ELSE CalleeClosure(m, n)

\* the functions reachable from f by a non-empty path of such calls
ReachableFrom(m, f) == CalleeClosure(m, DirectCallees(m, f))

HasDirectMayFreeCall(m, f) ==
    \E c \in m.calls : c.caller = f /\ f \in Scanned(m) /\ DirectlyMayFree(m, c)

\* C3: after the free finder ran, MayFreeFns is exactly the set of defined
\* non-helper functions that contain a directly-may-free call or reach, through
\* direct calls between defined non-helper functions, a function that does.
C3_MayFreeFnsExact ==
    fpc = "done" =>
        MayFreeFns = {f \in Scanned(ffM) :
                        \/ HasDirectMayFreeCall(ffM, f)
                        \/ \E g \in ReachableFrom(ffM, f) : HasDirectMayFreeCall(ffM, g)}

\* C4: when FnReachAnalysis has returned, FnReaching[f] is exactly the set of
\* functions reachable from f by a non-empty path of direct calls to defined
\* non-helper functions, and FnReached is the inverse relation.
C4_ReachExact ==
    fpc \in {"direct", "indirect", "calls", "done"} =>
        /\ \A f \in Scanned(ffM) : FnReaching[f] = ReachableFrom(ffM, f)
        /\ \A f, g \in AllFns : (g \in FnReaching[f]) <=> (f \in FnReached[g])

\* FnReachAnalysis has returned on a call graph with a cycle through all the
\* user functions: each of them reaches, and is reached by, all of them
C4_Witness ==
    /\ fpc = "direct"
    /\ \A f \in UserFns : FnReaching[f] = UserFns /\ FnReached[f] = UserFns

\* C5: after the free finder ran, MayFreeCalls is exactly the union of the
\* directly-may-free calls inside defined non-helper functions and the direct
\* call sites whose callee is in MayFreeFns; a call that only passes a may-free
\* function as an argument is not in it.
C5_MayFreeCallsExact ==
    fpc = "done" =>
        MayFreeCalls =
            {c \in ffM.calls : c.caller \in Scanned(ffM) /\ DirectlyMayFree(ffM, c)}
            \cup {c \in ffM.calls : c.callee \in MayFreeFns}

\* C22: when runOnModule of the free finder returns, FnReaching and FnReached
\* hold no entries; only MayFreeFns and MayFreeCalls outlive the run.
C22_ReachDropped ==
    fpc = "done" => \A f \in AllFns : FnReaching[f] = {} /\ FnReached[f] = {}

\* C30: no call of a key-check helper is classified as may-free and the
\* helper is not in MayFreeFns, whether the helper is defined or only declared.
C30_KeyCheckNeverMayFree ==
    fpc = "done" =>
        /\ \A c \in MayFreeCalls : ~ContainsPtrKeyCheck(c.callee)
        /\ \A F \in MayFreeFns : ~ContainsPtrKeyCheck(F)

-----------------------------------------------------------------------------
(***************************************************************************)
(* Basic blocks, CheckedCSplitBB.cpp and CheckedCKeyCheckOpt.cpp           *)
(***************************************************************************)
MaxInsts == 3       \* bound: instructions (terminators not counted) in the module

\* the addresses of safe-pointer aggregates that are checked or stored to
Addrs == {"p", "q"}

\* Instructions.  A terminator is not an instruction of the list: it is the
\* block's succs.  "check" is a call of MMPtrKeyCheck/MMArrayPtrKeyCheck with the
\* cast-stripped argument a; "store" is a StoreInst with pointer operand a;
\* "call" is any other call; "phi" is a PHI node.  mf says that the instruction
\* is a member of MayFreeCalls.
Inst(id, k, a, mf) == [id |-> id, k |-> k, a |-> a, mf |-> mf]
BasicBlock(insts, succs, preds) == [insts |-> insts, succs |-> succs, preds |-> preds]

BlockIds(bs) == DOMAIN bs

\* the position of an instruction: <<block, index>>
PosOf(bs, id) ==
    CHOOSE pos \in {<<b, i>> : b \in BlockIds(bs), i \in 1..MaxInsts + 1} :
        pos[2] <= Len(bs[pos[1]].insts) /\ bs[pos[1]].insts[pos[2]].id = id

\* BasicBlock::getFirstNonPHI as an index; Len + 1 stands for the terminator
FirstNonPHI(blk) ==
    IF \E i \in DOMAIN blk.insts : blk.insts[i].k # "phi"
    THEN CHOOSE i \in DOMAIN blk.insts :
            /\ blk.insts[i].k # "phi"
            /\ \A j \in 1..(i - 1) : blk.insts[j].k = "phi"
    ELSE Len(blk.insts) + 1

\* index of the function (in layouts) that holds block b
FnOfBlock(lays, b) == CHOOSE f \in DOMAIN lays : b \in Range(lays[f])

InsertAfter(lay, b, n) ==
    LET i == CHOOSE j \in DOMAIN lay : lay[j] = b
    IN  SubSeq(lay, 1, i) \o <<n>> \o SubSeq(lay, i + 1, Len(lay))

\* BasicBlock::getPrevNode
PrevNode(lay, b) ==
    LET i == CHOOSE j \in DOMAIN lay : lay[j] = b
    IN  lay[i - 1]

\* Mutant: the block that is split keeps the successors of its old terminator
\* beside the branch to the new block.
splitBasicBlock_KeepSuccessors(bs, lays, b, i) ==
    LET n    == Len(bs) + 1
        old  == bs[b]
        ren(ps) == [j \in DOMAIN ps |-> IF ps[j] = b THEN n ELSE ps[j]]
        new  == BasicBlock(SubSeq(old.insts, i, Len(old.insts)), old.succs, <<b>>)
        upd  == [x \in DOMAIN bs |->
                    IF x = b THEN BasicBlock(SubSeq(old.insts, 1, i - 1), <<n>> \o old.succs,
                                             ren(old.preds))
                    ELSE [bs[x] EXCEPT !.preds = ren(@)]]
        f    == FnOfBlock(lays, b)
    IN  [blocks  |-> Append(upd, new),
         layouts |-> [lays EXCEPT ![f] = InsertAfter(@, b, n)],
         newBB   |-> n]

\* BasicBlock::splitBasicBlock(I): the instructions from index i to the end, with
\* the terminator, move to a new block placed right after b; b ends in a branch
\* to the new block.  The terminator keeps its uses, so wherever b was a
\* predecessor the new block now is, at the same place of the predecessor list.
splitBasicBlock(bs, lays, b, i) ==
    LET n    == Len(bs) + 1
        old  == bs[b]
        ren(ps) == [j \in DOMAIN ps |-> IF ps[j] = b THEN n ELSE ps[j]]
        new  == BasicBlock(SubSeq(old.insts, i, Len(old.insts)), old.succs, <<b>>)
        upd  == [x \in DOMAIN bs |->
                    IF x = b THEN BasicBlock(SubSeq(old.insts, 1, i - 1), <<n>>, ren(old.preds))
                    ELSE [bs[x] EXCEPT !.preds = ren(@)]]
        f    == FnOfBlock(lays, b)
    IN  [blocks  |-> Append(upd, new),
         layouts |-> [lays EXCEPT ![f] = InsertAfter(@, b, n)],
         newBB   |-> n]

\* Mutant: the block is not split a second time after the call.
SplitAtCall_NoSecondSplit(bs, lays, id) ==
    LET pos == PosOf(bs, id)
        BB  == pos[1]
        s1  == IF FirstNonPHI(bs[BB]) # pos[2]
               THEN splitBasicBlock(bs, lays, BB, pos[2])
               ELSE [blocks |-> bs, layouts |-> lays, newBB |-> BB]
    IN  [blocks |-> s1.blocks, layouts |-> s1.layouts, mayFreeBB |-> s1.newBB]

\* Mutant: a call that stands right before the terminator is not cut off it.
SplitAtCall_KeepTerminator(bs, lays, id) ==
    LET pos == PosOf(bs, id)
        BB  == pos[1]
        s1  == IF FirstNonPHI(bs[BB]) # pos[2]
               THEN splitBasicBlock(bs, lays, BB, pos[2])
               ELSE [blocks |-> bs, layouts |-> lays, newBB |-> BB]
        p2  == PosOf(s1.blocks, id)
        s2  == splitBasicBlock(s1.blocks, s1.layouts, s1.newBB, p2[2] + 1)
        f   == FnOfBlock(s2.layouts, s2.newBB)
    IN  IF p2[2] = Len(s1.blocks[s1.newBB].insts)
        THEN [blocks |-> s1.blocks, layouts |-> s1.layouts, mayFreeBB |-> s1.newBB]
        ELSE [blocks |-> s2.blocks, layouts |-> s2.layouts,
              mayFreeBB |-> PrevNode(s2.layouts[f], s2.newBB)]

\* Mutant: the block inserted into MayFreeBBs is the one that starts at
\* CallNextInst, not the one before it.
SplitAtCall_InsertNewBB(bs, lays, id) ==
    LET pos == PosOf(bs, id)
        BB  == pos[1]
        s1  == IF FirstNonPHI(bs[BB]) # pos[2]
               THEN splitBasicBlock(bs, lays, BB, pos[2])
               ELSE [blocks |-> bs, layouts |-> lays, newBB |-> BB]
        p2  == PosOf(s1.blocks, id)
        s2  == splitBasicBlock(s1.blocks, s1.layouts, s1.newBB, p2[2] + 1)
    IN  [blocks |-> s2.blocks, layouts |-> s2.layouts, mayFreeBB |-> s2.newBB]

\* One iteration of the loop of SplitBB, for the call with this id (lines 47-55):
\* [blocks, layouts, mayFreeBB: the block inserted into MayFreeBBs]
SplitAtCall(bs, lays, id) ==
    LET pos == PosOf(bs, id)
        BB  == pos[1]
        \* if (BB->getFirstNonPHI() != Call) newBB = BB->splitBasicBlock(Call);
        s1  == IF FirstNonPHI(bs[BB]) # pos[2]
               THEN splitBasicBlock(bs, lays, BB, pos[2])
               ELSE [blocks |-> bs, layouts |-> lays, newBB |-> BB]
        \* newBB = newBB->splitBasicBlock(CallNextInst);
        p2  == PosOf(s1.blocks, id)
        s2  == splitBasicBlock(s1.blocks, s1.layouts, s1.newBB, p2[2] + 1)
        f   == FnOfBlock(s2.layouts, s2.newBB)
    IN  [blocks |-> s2.blocks, layouts |-> s2.layouts,
         \* MayFreeBBs.insert(newBB->getPrevNode());
         mayFreeBB |-> PrevNode(s2.layouts[f], s2.newBB)]

\* ---- CheckedCKeyCheckOptPass::Opt
\* BBWithChecks: the blocks that hold a key-check call
BBWithChecks(bs) == {b \in BlockIds(bs) : \E i \in DOMAIN bs[b].insts : bs[b].insts[i].k = "check"}

\* Mutant: the block-local walk does not let a store kill a checked pointer.
RECURSIVE LocalWalk_IgnoreStores(_, _, _)
LocalWalk_IgnoreStores(insts, ptrs, del) ==
    IF insts = <<>> THEN [ptrs |-> ptrs, del |-> del]
    ELSE LET I == Head(insts)
         IN  IF I.k = "check"
             THEN IF I.a \in ptrs
                  THEN LocalWalk_IgnoreStores(Tail(insts), ptrs, del \cup {I.id})
                  ELSE LocalWalk_IgnoreStores(Tail(insts), ptrs \cup {I.a}, del)
             ELSE LocalWalk_IgnoreStores(Tail(insts), ptrs, del)

\* The walk over one block of lines 302-318: CheckedPtrs starts as BBOut[BB];
\* [ptrs: CheckedPtrs at the end, del: the checks found redundant]
RECURSIVE LocalWalk(_, _, _)
LocalWalk(insts, ptrs, del) ==
    IF insts = <<>> THEN [ptrs |-> ptrs, del |-> del]
    ELSE LET I == Head(insts)
         IN  IF I.k = "check"
             THEN IF I.a \in ptrs
                  THEN LocalWalk(Tail(insts), ptrs, del \cup {I.id})
                  ELSE LocalWalk(Tail(insts), ptrs \cup {I.a}, del)
             ELSE IF I.k = "store"
             THEN LocalWalk(Tail(insts), ptrs \ {I.a}, del)
             ELSE LocalWalk(Tail(insts), ptrs, del)

\* The walk over one block of lines 368-383: CheckedPtrs is BBIn[BB] itself;
\* a check found in it is scheduled, but no check is added to it.
RECURSIVE CollectWalk(_, _, _)
CollectWalk(insts, ptrs, del) ==
    IF insts = <<>> THEN [ptrs |-> ptrs, del |-> del]
    ELSE LET I == Head(insts)
         IN  IF I.k = "check"
             THEN IF I.id \in del
                  THEN CollectWalk(Tail(insts), ptrs, del)
                  ELSE IF I.a \in ptrs
                       THEN CollectWalk(Tail(insts), ptrs, del \cup {I.id})
                       ELSE CollectWalk(Tail(insts), ptrs, del)
             ELSE IF I.k = "store"
             THEN CollectWalk(Tail(insts), ptrs \ {I.a}, del)
             ELSE CollectWalk(Tail(insts), ptrs, del)

\* the pointer operands of the stores of a block
StoredPtrs(blk) == {blk.insts[i].a : i \in {j \in DOMAIN blk.insts : blk.insts[j].k = "store"}}

\* Mutant: a may-free predecessor after the first does not clear BBIn[BB].
RECURSIVE IntersectPreds_NoClear(_, _, _, _, _)
IntersectPreds_NoClear(ps, i, out, mfbbs, acc) ==
    IF i > Len(ps) THEN acc
    ELSE IF ps[i] \in mfbbs
         THEN IntersectPreds_NoClear(ps, i + 1, out, mfbbs, acc)
         ELSE IntersectPreds_NoClear(ps, i + 1, out, mfbbs, [acc EXCEPT !.pi = @ \cap out[ps[i]]])

\* SetIntersection over the predecessors after the first (lines 352-358):
\* [pi: predIntersection, clr: whether BBIn[BB].clear() ran]
RECURSIVE IntersectPreds(_, _, _, _, _)
IntersectPreds(ps, i, out, mfbbs, acc) ==
    IF i > Len(ps) THEN acc
    ELSE IF ps[i] \in mfbbs
         THEN IntersectPreds(ps, i + 1, out, mfbbs, [acc EXCEPT !.clr = TRUE])
         ELSE IntersectPreds(ps, i + 1, out, mfbbs, [acc EXCEPT !.pi = @ \cap out[ps[i]]])

\* Mutant: the propagation treats a may-free block like any other block.
PropagateBlock_IgnoreMayFree(bs, entry, mfbbs, st, BB) ==
    IF st.crashed THEN st
    ELSE
    LET CheckedPtrBBIn == st.in[BB] \ StoredPtrs(bs[BB])
        out1 == [st.out EXCEPT ![BB] = @ \cup CheckedPtrBBIn]
        ch1  == st.changed \/ (out1[BB] # st.out[BB])
        s1   == [st EXCEPT !.out = out1, !.changed = ch1]
        ps   == bs[BB].preds
    IN  IF BB = entry THEN s1
        ELSE IF ps = <<>> THEN [s1 EXCEPT !.crashed = TRUE]
        ELSE LET pi  == UNION {{a \in Addrs : \A i \in DOMAIN ps : a \in out1[ps[i]]}}
                 in1 == s1.in[BB] \cup pi
             IN  [s1 EXCEPT !.in[BB] = in1,
                            !.changed = ch1 \/ (Cardinality(in1) > Cardinality(s1.in[BB]))]

\* The body of the loop over the blocks of F, for block BB (lines 328-359), on
\* st = [in, out, changed, crashed].
PropagateBlock(bs, entry, mfbbs, st, BB) ==
    IF st.crashed \/ BB \in mfbbs THEN st      \* Skip BBs that may free.
    ELSE
    LET \* Propagate from BBIn to BBOut.
        CheckedPtrBBIn == st.in[BB] \ StoredPtrs(bs[BB])
        out1 == [st.out EXCEPT ![BB] = @ \cup CheckedPtrBBIn]
        ch1  == st.changed \/ (out1[BB] # st.out[BB])
        s1   == [st EXCEPT !.out = out1, !.changed = ch1]
        ps   == bs[BB].preds
    IN  IF BB = entry THEN s1                  \* Skip the first BB of a function.
        ELSE IF ps = <<>>
        THEN \* *pred_begin(BB) of a block without predecessors dereferences the
             \* end iterator: the assertion fails or a null pointer is read
             [s1 EXCEPT !.crashed = TRUE]
        ELSE IF ps[1] \in mfbbs
        THEN [s1 EXCEPT !.in[BB] = {}]
        ELSE LET r   == IntersectPreds(ps, 2, out1, mfbbs, [pi |-> out1[ps[1]], clr |-> FALSE])
                 in0 == IF r.clr THEN {} ELSE s1.in[BB]
                 in1 == in0 \cup r.pi
             IN  [s1 EXCEPT !.in[BB] = in1,
                            !.changed = ch1 \/ (Cardinality(in1) > Cardinality(in0))]

\* one pass of the do-while loop over the blocks of a function (lines 326-360)
RECURSIVE PropagatePass(_, _, _, _, _)
PropagatePass(bs, entry, mfbbs, st, lay) ==
    IF lay = <<>> THEN st
    ELSE PropagatePass(bs, entry, mfbbs,
                       PropagateBlock(bs, entry, mfbbs, st, Head(lay)), Tail(lay))

\* ---- the functions the passes are given
\* the kinds of instruction a block is filled with
InstKinds == {<<"check", "p">>, <<"check", "q">>, <<"store", "p">>,
              <<"call", "">>, <<"phi", "">>}

\* PHI nodes stand at the beginning of a block
PhisFirst(ks) == \A i \in DOMAIN ks : (ks[i][1] = "phi" /\ i > 1) => ks[i - 1][1] = "phi"

RECURSIVE Fillings(_, _, _)
\* the ways to fill n blocks with at most k instructions in all
Fillings(kinds, n, k) ==
    IF n = 0 THEN {<<>>}
    ELSE UNION {{<<ks>> \o rest : rest \in Fillings(kinds, n - 1, k - Len(ks))} :
                   ks \in {x \in SeqsUpTo(kinds, k) : PhisFirst(x)}}

\* Control-flow graphs: per block the successors named by its terminator, and
\* the blocks of each function in layout order (the first is the entry block).
Shapes ==
    { [succs |-> << <<2>>, <<>> >>,                       layouts |-> << <<1, 2>> >>],
      [succs |-> << <<2, 3>>, <<4>>, <<4>>, <<>> >>,      layouts |-> << <<1, 2, 3, 4>> >>],
      [succs |-> << <<2>>, <<3, 4>>, <<2>>, <<>> >>,      layouts |-> << <<1, 2, 3, 4>> >>],
      [succs |-> << <<2>>, <<2, 3>>, <<>> >>,             layouts |-> << <<1, 2, 3>> >>],
      [succs |-> << <<3>>, <<3>>, <<>> >>,                layouts |-> << <<1, 2, 3>> >>],
      [succs |-> << <<2>>, <<>>, <<>> >>,                 layouts |-> << <<1, 2>>, <<3>> >>] }

\* the predecessors of b, one for each use of b by a terminator, in block order
RECURSIVE PredsFrom(_, _, _)
PredsFrom(succs, b, x) ==
    IF x > Len(succs) THEN <<>>
    ELSE [i \in 1..Len(SelectSeq(succs[x], LAMBDA t : t = b)) |-> x]
            \o PredsFrom(succs, b, x + 1)

Reverse(q) == [i \in DOMAIN q |-> q[Len(q) + 1 - i]]

\* the use list of a block has an order of its own: here the block order or its reverse
PredOrders(succs) ==
    {[b \in DOMAIN succs |-> PredsFrom(succs, b, 1)],
     [b \in DOMAIN succs |-> Reverse(PredsFrom(succs, b, 1))]}

MakeBlocks(succs, preds, fill) ==
    [b \in DOMAIN succs |->
        BasicBlock([i \in DOMAIN fill[b] |->
                        Inst(10 * b + i, fill[b][i][1], fill[b][i][2], fill[b][i][1] = "call")],
                   succs[b], preds[b])]

\* the ids of the members of MayFreeCalls
MayFreeCallIds(bs) ==
    UNION {{bs[b].insts[i].id : i \in {j \in DOMAIN bs[b].insts : bs[b].insts[j].mf}} :
              b \in BlockIds(bs)}

CfgIdle ==
    /\ blocks = <<>>
    /\ layouts = <<>>
    /\ splitTodo = {}
    /\ MayFreeBBs = {}
    /\ BBIn = <<>>
    /\ BBOut = <<>>
    /\ CheckToDel = {}
    /\ curFn = 0
    /\ optPre = <<>>
    /\ NumDynamicKeyCheckRemoved = 0
    /\ numPre = 0
    /\ passes = 0
    /\ orets = <<>>
    /\ opc = "idle"

\* a module before CheckedCSplitBB runs, with MayFreeCalls from the free finder
PipeStart ==
    /\ \E sh \in Shapes :
        \E preds \in PredOrders(sh.succs), fill \in Fillings(InstKinds, Len(sh.succs), MaxInsts) :
            /\ blocks = MakeBlocks(sh.succs, preds, fill)
            /\ layouts = sh.layouts
    /\ splitTodo = MayFreeCallIds(blocks)
    /\ MayFreeBBs = {}
    /\ BBIn = <<>>
    /\ BBOut = <<>>
    /\ CheckToDel = {}
    /\ curFn = 0
    /\ optPre = <<>>
    /\ NumDynamicKeyCheckRemoved = 0
    /\ numPre = 0
    /\ passes = 0
    /\ orets = <<>>
    /\ opc = "split"

\* the instructions Opt tells apart: key checks and stores
OptKinds == {<<"check", "p">>, <<"check", "q">>, <<"store", "p">>}

MaxMayFreeBBs == 2  \* bound: blocks in MayFreeBBs when Opt is run on its own

\* Opt on its own: any control-flow graph with any set MayFreeBBs
OptStart ==
    /\ \E sh \in Shapes :
        \E preds \in PredOrders(sh.succs), fill \in Fillings(OptKinds, Len(sh.succs), MaxInsts) :
            /\ blocks = MakeBlocks(sh.succs, preds, fill)
            /\ layouts = sh.layouts
    /\ MayFreeBBs \in SubsetsUpTo(BlockIds(blocks), MaxMayFreeBBs)
    /\ splitTodo = {}
    /\ BBIn = [b \in BlockIds(blocks) |-> {}]
    /\ BBOut = [b \in BlockIds(blocks) |-> {}]
    /\ CheckToDel = {}
    /\ curFn = 0
    /\ optPre = blocks
    /\ NumDynamicKeyCheckRemoved = 0
    /\ numPre = 0
    /\ passes = 0
    /\ orets = <<>>
    /\ opc = "local"

\* SplitBB: one iteration of the loop over the unordered set MayFreeCalls
SplitStep ==
    /\ opc = "split"
    /\ \E id \in splitTodo :
        LET r == SplitAtCall(blocks, layouts, id)
        IN  /\ blocks' = r.blocks
            /\ layouts' = r.layouts
            /\ MayFreeBBs' = MayFreeBBs \cup {r.mayFreeBB}
            /\ splitTodo' = splitTodo \ {id}
    /\ UNCHANGED <<numPre, orets, passes, BBIn, BBOut, CheckToDel, curFn, optPre, NumDynamicKeyCheckRemoved, opc>>

\* CheckedCSplitBBPass::runOnModule returns; CheckedCKeyCheckOptPass::runOnModule
\* calls Opt, which starts with empty maps
SplitDone ==
    /\ opc = "split" /\ splitTodo = {}
    /\ opc' = "local"
    /\ BBIn' = [b \in BlockIds(blocks) |-> {}]
    /\ BBOut' = [b \in BlockIds(blocks) |-> {}]
    /\ optPre' = blocks
    /\ UNCHANGED <<numPre, orets, passes, blocks, layouts, splitTodo, MayFreeBBs, CheckToDel, curFn,
                   NumDynamicKeyCheckRemoved>>

\* Opt: BB-local optimization and initialization of BBOut (lines 297-319)
RECURSIVE LocalAll(_, _, _, _)
LocalAll(bs, todo, out, del) ==
    IF todo = {} THEN [out |-> out, del |-> del]
    ELSE LET BB == CHOOSE b \in todo : TRUE
             r  == LocalWalk(bs[BB].insts, out[BB], del)
         IN  LocalAll(bs, todo \ {BB}, [out EXCEPT ![BB] = r.ptrs], r.del)

OptLocal ==
    /\ opc = "local"
    /\ LET r == LocalAll(blocks, BBWithChecks(blocks), BBOut, CheckToDel)
       IN  /\ BBOut' = r.out
           /\ CheckToDel' = r.del
    /\ curFn' = 1
    /\ opc' = IF layouts = <<>> THEN "erase" ELSE "propagate"
    /\ UNCHANGED <<numPre, orets, passes, blocks, layouts, splitTodo, MayFreeBBs, BBIn, optPre,
                   NumDynamicKeyCheckRemoved>>

\* The sets BBIn and BBOut of the blocks of a function hold at most
\* 2 * |blocks| * |addresses| members in all, and a pass that asks for another
\* one has grown one of them; the passes are counted up to one beyond this limit.
PassLimit(f) == 2 * Len(layouts[f]) * Cardinality(Addrs) + 1

\* Opt: one pass of the do-while loop for the current function (lines 325-361)
OptPropagate ==
    /\ opc = "propagate" /\ passes <= PassLimit(curFn)
    /\ passes' = passes + 1
    /\ LET lay == layouts[curFn]
           st  == PropagatePass(blocks, Head(lay), MayFreeBBs,
                                [in |-> BBIn, out |-> BBOut, changed |-> FALSE,
                                 crashed |-> FALSE], lay)
       IN  /\ BBIn' = st.in
           /\ BBOut' = st.out
           /\ opc' = IF st.crashed THEN "crashed"
                     ELSE IF st.changed THEN "propagate" ELSE "collect"
    /\ UNCHANGED <<numPre, orets, blocks, layouts, splitTodo, MayFreeBBs, CheckToDel, curFn, optPre,
                   NumDynamicKeyCheckRemoved>>

\* Opt: collect all redundant checks (lines 363-384); the loop runs over the
\* blocks with checks of the whole module, once for every function
RECURSIVE CollectAll(_, _, _, _)
CollectAll(bs, todo, in, del) ==
    IF todo = {} THEN [in |-> in, del |-> del]
    ELSE LET BB == CHOOSE b \in todo : TRUE
             r  == CollectWalk(bs[BB].insts, in[BB], del)
         IN  CollectAll(bs, todo \ {BB}, [in EXCEPT ![BB] = r.ptrs], r.del)

OptCollect ==
    /\ opc = "collect"
    /\ passes' = 0
    /\ LET r == CollectAll(blocks, BBWithChecks(blocks), BBIn, CheckToDel)
       IN  /\ BBIn' = r.in
           /\ CheckToDel' = r.del
    /\ IF curFn < Len(layouts)
       THEN curFn' = curFn + 1 /\ opc' = "propagate"
       ELSE curFn' = curFn /\ opc' = "erase"
    /\ UNCHANGED <<numPre, orets, blocks, layouts, splitTodo, MayFreeBBs, BBOut, optPre,
                   NumDynamicKeyCheckRemoved>>

\* Instruction::eraseFromParent for a set of instructions
\* Mutant: the erasure also takes every other key check of an address that a
\* scheduled key check tests.
EraseInsts_SameAddress(bs, del) ==
    LET addrs == UNION {{bs[b].insts[i].a : i \in {j \in DOMAIN bs[b].insts : bs[b].insts[j].id \in del}} :
                           b \in DOMAIN bs}
    IN  [b \in DOMAIN bs |->
            [bs[b] EXCEPT !.insts = SelectSeq(@, LAMBDA I : ~(I.k = "check" /\ I.a \in addrs))]]

EraseInsts(bs, del) ==
    [b \in DOMAIN bs |-> [bs[b] EXCEPT !.insts = SelectSeq(@, LAMBDA I : I.id \notin del)]]

\* Opt: remove redundant checks (lines 387-394)
OptErase ==
    /\ opc = "erase"
    /\ NumDynamicKeyCheckRemoved' = NumDynamicKeyCheckRemoved + Cardinality(CheckToDel)
    /\ blocks' = EraseInsts(blocks, CheckToDel)
    /\ opc' = "return"
    /\ UNCHANGED <<numPre, orets, passes, layouts, splitTodo, MayFreeBBs, BBIn, BBOut, CheckToDel, curFn, optPre>>

\* runOnModule: return NumDynamicKeyCheckRemoved > 0 (line 411)
OptReturn ==
    /\ opc = "return"
    /\ orets' = Append(orets, NumDynamicKeyCheckRemoved > 0)
    /\ opc' = "done"
    /\ UNCHANGED <<blocks, layouts, splitTodo, MayFreeBBs, BBIn, BBOut, CheckToDel, curFn,
                   optPre, NumDynamicKeyCheckRemoved, numPre, passes>>

NumOptRuns == 2     \* bound: runs of the check removal in one process

\* The pass manager runs the pass again in the same process: the maps of Opt
\* are locals and start empty, the statistic is a static and keeps its value.
OptRunAgain ==
    /\ opc = "done" /\ Len(orets) < NumOptRuns
    /\ opc' = "local"
    /\ BBIn' = [b \in BlockIds(blocks) |-> {}]
    /\ BBOut' = [b \in BlockIds(blocks) |-> {}]
    /\ CheckToDel' = {}
    /\ curFn' = 0
    /\ optPre' = blocks
    /\ numPre' = NumDynamicKeyCheckRemoved
    /\ passes' = 0
    /\ UNCHANGED <<blocks, layouts, splitTodo, MayFreeBBs, NumDynamicKeyCheckRemoved, orets>>

\* ---- the check removal built with ADD_CHECK_BEFORE_CALL
\* The functions given to it: a call with an address is a call that passes the
\* safe pointer stored at that address; the functions themselves take no
\* safe-pointer argument, so addCheckedArgToFnFront adds nothing to BBOut.
HoistKinds == {<<"check", "p">>, <<"store", "p">>, <<"call", "p">>, <<"call", "">>}

HoistStart ==
    /\ \E sh \in Shapes :
        \E preds \in PredOrders(sh.succs), fill \in Fillings(HoistKinds, Len(sh.succs), MaxInsts) :
            /\ blocks = MakeBlocks(sh.succs, preds, fill)
            /\ layouts = sh.layouts
    /\ splitTodo = MayFreeCallIds(blocks)
    /\ MayFreeBBs = {}
    /\ BBIn = <<>>
    /\ BBOut = <<>>
    /\ CheckToDel = {}
    /\ curFn = 0
    /\ optPre = <<>>
    /\ NumDynamicKeyCheckRemoved = 0
    /\ numPre = 0
    /\ passes = 0
    /\ orets = <<>>
    /\ opc = "split"

\* CheckedCSplitBBPass::runOnModule returns; runOnModule of the check removal
\* calls addKeyCheckForCalls first (lines 405-407)
SplitDoneHoist ==
    /\ opc = "split" /\ splitTodo = {}
    /\ opc' = "hoist"
    /\ UNCHANGED <<blocks, layouts, splitTodo, MayFreeBBs, BBIn, BBOut, CheckToDel, curFn,
                   optPre, NumDynamicKeyCheckRemoved, numPre, passes, orets>>

\* the calls of a sequence of blocks that pass a safe pointer, in program order
RECURSIVE AddKeyChecks(_, _)
AddKeyChecks(bs, lay) ==
    IF lay = <<>> THEN <<>>
    ELSE LET calls == SelectSeq(bs[Head(lay)].insts, LAMBDA I : I.k = "call" /\ I.a \in Addrs)
         IN  [i \in DOMAIN calls |-> calls[i].id] \o AddKeyChecks(bs, Tail(lay))

\* addKeyCheckForCalls for one recorded call (lines 168-203): OldBB is split
\* at the call; OldBB ends in the null test, which branches to the new block
\* KeyCheckForCall at the end of the function or to the block with the call;
\* KeyCheckForCall holds the key check and branches to the block with the call.
\* newFirst says where the use list of the block with the call puts the branch
\* of KeyCheckForCall: before or after the branch of OldBB.
addKeyCheckForCall(bs, lays, id, newFirst) ==
    LET pos        == PosOf(bs, id)
        OldBB      == pos[1]
        Call       == bs[OldBB].insts[pos[2]]
        s          == splitBasicBlock(bs, lays, OldBB, pos[2])
        BBWithCall == s.newBB
        k          == BBWithCall + 1
        KeyCheckBB == BasicBlock(<<Inst(100 + id, "check", Call.a, FALSE)>>,
                                 <<BBWithCall>>, <<OldBB>>)
        upd        == [x \in DOMAIN s.blocks |->
                         IF x = OldBB THEN [s.blocks[x] EXCEPT !.succs = <<k, BBWithCall>>]
                         ELSE IF x = BBWithCall
                         THEN [s.blocks[x] EXCEPT !.preds = IF newFirst THEN <<k, OldBB>>
                                                            ELSE <<OldBB, k>>]
                         ELSE s.blocks[x]]
        f          == FnOfBlock(lays, OldBB)
    IN  [blocks  |-> Append(upd, KeyCheckBB),
         layouts |-> [s.layouts EXCEPT ![f] = Append(@, k)]]

\* the loop over AddKeyChecks of one function (line 169)
RECURSIVE InsertKeyChecks(_, _, _, _)
InsertKeyChecks(bs, lays, ids, newFirst) ==
    IF ids = <<>> THEN [blocks |-> bs, layouts |-> lays]
    ELSE LET r == addKeyCheckForCall(bs, lays, Head(ids), newFirst)
         IN  InsertKeyChecks(r.blocks, r.layouts, Tail(ids), newFirst)

\* the loop over the functions of the module (lines 100-204)
RECURSIVE addKeyCheckForCalls(_, _, _, _)
addKeyCheckForCalls(bs, lays, f, newFirst) ==
    IF f > Len(lays) THEN [blocks |-> bs, layouts |-> lays]
    ELSE LET r == InsertKeyChecks(bs, lays, AddKeyChecks(bs, lays[f]), newFirst)
         IN  addKeyCheckForCalls(r.blocks, r.layouts, f + 1, newFirst)

\* runOnModule: addKeyCheckForCalls(M), then Opt starts with empty maps
HoistChecks ==
    /\ opc = "hoist"
    /\ \E newFirst \in BOOLEAN :
        LET r == addKeyCheckForCalls(blocks, layouts, 1, newFirst)
        IN  /\ blocks' = r.blocks
            /\ layouts' = r.layouts
            /\ BBIn' = [b \in BlockIds(r.blocks) |-> {}]
            /\ BBOut' = [b \in BlockIds(r.blocks) |-> {}]
            /\ optPre' = r.blocks
    /\ opc' = "local"
    /\ UNCHANGED <<splitTodo, MayFreeBBs, CheckToDel, curFn, NumDynamicKeyCheckRemoved,
                   numPre, passes, orets>>

HoistSteps ==
    SplitStep \/ SplitDoneHoist \/ HoistChecks \/ OptLocal \/ OptPropagate \/ OptCollect
        \/ OptErase \/ OptReturn

SplitSteps == SplitStep \/ SplitDone
OptSteps == OptLocal \/ OptPropagate \/ OptCollect \/ OptErase \/ OptReturn \/ OptRunAgain

\* ---- properties of CheckedCSplitBB and CheckedCKeyCheckOpt

\* the indexes of the may-free calls of a block
MayFreeIdx(blk) == {i \in DOMAIN blk.insts : blk.insts[i].mf}

\* C2 (invariant I3): once SplitBB has processed every element of MayFreeCalls,
\* in whatever order, a block that holds a may-free call holds exactly one, and
\* that call is the last instruction before the terminator.
C2_I3AfterSplitBB ==
    splitTodo = {} =>
        \A b \in BlockIds(blocks) :
            MayFreeIdx(blocks[b]) # {} => MayFreeIdx(blocks[b]) = {Len(blocks[b].insts)}

\* SplitBB has finished on a block that held two adjacent may-free calls, the
\* first one being the first non-PHI instruction and the second one being
\* followed by the terminator.
C2_Witness ==
    /\ opc = "split" /\ splitTodo = {}
    /\ \E b1, b2 \in MayFreeBBs :
        /\ b1 # b2
        /\ b1 = Head(layouts[1])
        /\ MayFreeIdx(blocks[b1]) # {}
        /\ MayFreeIdx(blocks[b2]) # {}
        /\ \E x \in BlockIds(blocks) :
            /\ blocks[x].insts = <<>>
            /\ blocks[x].preds = <<b2>>
            /\ blocks[x].succs # <<>>

RECURSIVE PathsBetween(_, _, _, _)
\* the acyclic paths (sequences of distinct blocks) from block x to block y
\* that avoid the blocks of seen
PathsBetween(bs, x, y, seen) ==
    IF x = y THEN {<<x>>}
    ELSE UNION {{<<x>> \o rest : rest \in PathsBetween(bs, t, y, seen \cup {x})} :
                   t \in Range(bs[x].succs) \ (seen \cup {x})}

RECURSIVE InstsAlong(_, _)
\* the instructions of the blocks of a path, in order
InstsAlong(bs, path) ==
    IF path = <<>> THEN <<>> ELSE bs[Head(path)].insts \o InstsAlong(bs, Tail(path))

\* a kill of address a: a Store whose pointer operand is a, or a may-free call
IsKill(I, a) == (I.k = "store" /\ I.a = a) \/ I.mf

\* the sequence of instructions ends with a check of a followed by no kill of a
CheckedAtEnd(insts, a) ==
    \E i \in DOMAIN insts :
        /\ insts[i].k = "check" /\ insts[i].a = a
        /\ \A j \in (i + 1)..Len(insts) : ~IsKill(insts[j], a)

\* the instructions executed on a path before the instruction at pos (the
\* path ends in the block of pos)
InstsBefore(bs, path, pos) ==
    InstsAlong(bs, SubSeq(path, 1, Len(path) - 1)) \o SubSeq(bs[pos[1]].insts, 1, pos[2] - 1)

\* the ids of the key-check calls of the module
CheckIds(bs) ==
    UNION {{bs[b].insts[i].id : i \in {j \in DOMAIN bs[b].insts : bs[b].insts[j].k = "check"}} :
              b \in BlockIds(bs)}

\* the check with this id is covered: on every acyclic path from the entry of
\* its function it is preceded by a check of the same address with no kill between
Covered(bs, lays, id) ==
    LET pos   == PosOf(bs, id)
        entry == Head(lays[FnOfBlock(lays, pos[1])])
    IN  \A path \in PathsBetween(bs, entry, pos[1], {}) :
            CheckedAtEnd(InstsBefore(bs, path, pos), bs[pos[1]].insts[pos[2]].a)

\* C1 (soundness of the key-check optimization): every key-check call that Opt
\* erases is preceded, on every acyclic path from the entry block of its
\* function, by a check of the identical address with no Store to that address
\* and no may-free call in between.
C1_OptSound ==
    opc = "done" => \A id \in CheckToDel : Covered(optPre, layouts, id)

\* Opt has erased a check of a block with two predecessors, found redundant by
\* the propagation between blocks.
C1_Witness ==
    /\ opc = "done"
    /\ \E id \in CheckToDel :
        LET pos == PosOf(optPre, id)
        IN  /\ Len(optPre[pos[1]].preds) = 2
            /\ pos[1] \notin Range(optPre[pos[1]].preds)

\* the check at position pos2 comes after the check at pos1 and is dominated
\* by it: every path from the entry block to pos2 passes pos1
Dominates(bs, entry, pos1, pos2) ==
    IF pos1[1] = pos2[1] THEN pos1[2] < pos2[2]
    ELSE /\ PathsBetween(bs, entry, pos2[1], {}) # {}
         /\ \A path \in PathsBetween(bs, entry, pos2[1], {}) : pos1[1] \in Range(path)

\* the instructions on a path after pos1 (in its first block) and before pos2
\* (in its last block)
InstsBetween(bs, path, pos1, pos2) ==
    IF Len(path) = 1 THEN SubSeq(bs[pos1[1]].insts, pos1[2] + 1, pos2[2] - 1)
    ELSE SubSeq(bs[pos1[1]].insts, pos1[2] + 1, Len(bs[pos1[1]].insts))
            \o InstsAlong(bs, SubSeq(path, 2, Len(path) - 1))
            \o SubSeq(bs[pos2[1]].insts, 1, pos2[2] - 1)

\* two checks of one address, the second dominated by the first, with no kill
\* on any acyclic path between them
RedundantPair(bs, lays, id1, id2) ==
    LET pos1 == PosOf(bs, id1)
        pos2 == PosOf(bs, id2)
        f    == FnOfBlock(lays, pos1[1])
        a    == bs[pos1[1]].insts[pos1[2]].a
    IN  /\ id1 # id2
        /\ bs[pos2[1]].insts[pos2[2]].a = a
        /\ FnOfBlock(lays, pos2[1]) = f
        /\ Dominates(bs, Head(lays[f]), pos1, pos2)
        /\ \A path \in PathsBetween(bs, pos1[1], pos2[1], {}) :
              \A i \in DOMAIN InstsBetween(bs, path, pos1, pos2) :
                  ~IsKill(InstsBetween(bs, path, pos1, pos2)[i], a)

\* C7 (invariant I4): after Opt no two key-check calls on the same address remain
\* such that the second is dominated by the first and no acyclic path between
\* them contains a Store to that address or a may-free call.
C7_I4AfterOpt ==
    opc = "done" =>
        \A id1, id2 \in CheckIds(blocks) : ~RedundantPair(blocks, layouts, id1, id2)

\* a non-entry block outside MayFreeBBs with a predecessor in MayFreeBBs
AfterMayFree(bs, lays, mfbbs, B) ==
    /\ B \notin mfbbs
    /\ B # Head(lays[FnOfBlock(lays, B)])
    /\ Range(bs[B].preds) \cap mfbbs # {}

\* the check at index i of the block is found redundant inside the block: an
\* earlier check of the same address, no Store to it in between
LocallyCovered(insts, i) ==
    \E j \in 1..(i - 1) :
        /\ insts[j].k = "check" /\ insts[j].a = insts[i].a
        /\ \A x \in (j + 1)..(i - 1) : ~(insts[x].k = "store" /\ insts[x].a = insts[i].a)

C17_ReturnsTrueIffErased ==
    opc = "done" => (orets[Len(orets)] <=> (CheckToDel # {}))

\* the ids of all instructions of the blocks
AllInstIds(bs) ==
    UNION {{bs[b].insts[i].id : i \in DOMAIN bs[b].insts} : b \in BlockIds(bs)}

\* C18: in every run of Opt the counter grows by the number of key checks before
\* the run minus the number after it; every key check scheduled in CheckToDel
\* is erased, and nothing else is.
C18_CounterCountsErased ==
    opc \in {"return", "done"} =>
        /\ NumDynamicKeyCheckRemoved - numPre
              = Cardinality(CheckIds(optPre)) - Cardinality(CheckIds(blocks))
        /\ CheckToDel \subseteq CheckIds(optPre)
        /\ AllInstIds(blocks) = AllInstIds(optPre) \ CheckToDel
        /\ blocks = [b \in DOMAIN optPre |->
                        [optPre[b] EXCEPT !.insts = SelectSeq(@, LAMBDA I : I.id \in AllInstIds(blocks))]]

\* a run that erased a key check and left another key check of the same address
C18_Witness ==
    /\ opc = "return"
    /\ CheckToDel # {}
    /\ \E b1, b2 \in BlockIds(blocks) :
        \E i \in DOMAIN optPre[b1].insts, j \in DOMAIN blocks[b2].insts :
            /\ optPre[b1].insts[i].id \in CheckToDel
            /\ blocks[b2].insts[j].k = "check"
            /\ blocks[b2].insts[j].a = optPre[b1].insts[i].a

\* C19: for every control-flow graph, loops and neighbours of may-free blocks
\* included, the propagation loop of Opt reaches a pass that changes no BBIn
\* and no BBOut and ends: the collection of the redundant checks follows.
C19_PropagationTerminates ==
    /\ opc # "crashed"
    /\ opc = "propagate" => passes <= PassLimit(curFn)

\* C20: after SplitBB, MayFreeBBs is the set of the blocks that hold a may-free
\* call; such a block holds one may-free call and besides it only PHI nodes
\* (and its terminator); whatever the order the calls were taken in.
C20_MayFreeBBsExact ==
    (opc # "idle" /\ opc # "split") =>
        /\ MayFreeBBs = {b \in BlockIds(blocks) : MayFreeIdx(blocks[b]) # {}}
        /\ \A b \in MayFreeBBs :
            /\ Cardinality(MayFreeIdx(blocks[b])) = 1
            /\ \A i \in DOMAIN blocks[b].insts :
                  blocks[b].insts[i].mf \/ blocks[b].insts[i].k = "phi"

\* SplitBB has split one block at two may-free calls, the later call first
C20_Witness ==
    /\ opc = "local"
    /\ Cardinality(MayFreeBBs) >= 2
    /\ \E b1, b2 \in MayFreeBBs :
        /\ b1 < b2
        /\ blocks[b1].insts[1].id > blocks[b2].insts[1].id
        /\ blocks[b1].insts[1].id \div 10 = blocks[b2].insts[1].id \div 10

\* The instructions executed from the start of block b up to the first
\* terminator that is not a branch to a block created after the first n0 blocks
RECURSIVE ChainInsts(_, _, _)
ChainInsts(bs, b, n0) ==
    bs[b].insts \o (IF Len(bs[b].succs) = 1 /\ bs[b].succs[1] > n0
                    THEN ChainInsts(bs, bs[b].succs[1], n0) ELSE <<>>)

\* the successors named by that terminator
RECURSIVE ChainSuccs(_, _, _)
ChainSuccs(bs, b, n0) ==
    IF Len(bs[b].succs) = 1 /\ bs[b].succs[1] > n0
    THEN ChainSuccs(bs, bs[b].succs[1], n0) ELSE bs[b].succs

\* C21: SplitBB keeps the meaning of the control-flow graph.  Every iteration
\* leaves, for every block that existed, the same instructions in the same
\* order up to the same terminator, now spread over the block and the blocks
\* split off it; a new block is entered only by the unconditional branch of
\* the block it was split off; no instruction is added, removed or reordered.
C21_SplitPreservesPaths ==
    [][(opc = "split" /\ blocks' # blocks) =>
        LET n0 == Len(blocks)
        IN  /\ \A b \in 1..n0 :
                /\ ChainInsts(blocks', b, n0) = blocks[b].insts
                /\ ChainSuccs(blocks', b, n0) = blocks[b].succs
            /\ \A n \in (n0 + 1)..Len(blocks') :
                /\ Len(blocks'[n].preds) = 1
                /\ blocks'[blocks'[n].preds[1]].succs = <<n>>
            /\ \A f \in DOMAIN layouts : Head(layouts'[f]) = Head(layouts[f])
            /\ \A x \in BlockIds(blocks'), t \in BlockIds(blocks') :
                  Len(SelectSeq(blocks'[x].preds, LAMBDA u : u = t)) =
                  Len(SelectSeq(blocks'[t].succs, LAMBDA u : u = x))
    ]_vars

\* SplitBB has split a block that ends in a conditional branch at two calls
C21_Witness ==
    /\ opc = "split" /\ splitTodo = {}
    /\ Cardinality(MayFreeBBs) >= 2
    /\ \E n \in BlockIds(blocks) :
        /\ Len(blocks[n].succs) = 2
        /\ Len(blocks[n].preds) = 1
        /\ blocks[n].preds[1] \in MayFreeBBs

\* What does not depend on how the blocks are numbered: the number of blocks,
\* the instructions of each block with those of its successors, and the
\* instructions of the blocks in MayFreeBBs
Canon(bs, mfbbs) ==
    [n     |-> Len(bs),
     edges |-> {<<bs[b].insts, [i \in DOMAIN bs[b].succs |-> bs[bs[b].succs[i]].insts]>> :
                   b \in BlockIds(bs)},
     mf    |-> {bs[b].insts : b \in mfbbs}]

\* the results of SplitBB over all orders of taking the calls left in todo
RECURSIVE SplitResults(_, _, _, _)
SplitResults(bs, lays, mfbbs, todo) ==
    IF todo = {} THEN {Canon(bs, mfbbs)}
    ELSE UNION {LET r == SplitAtCall(bs, lays, id)
                IN  SplitResults(r.blocks, r.layouts, mfbbs \cup {r.mayFreeBB}, todo \ {id}) :
                   id \in todo}

\* C23: SplitBB is deterministic: whatever the order in which the loop takes the
\* members of MayFreeCalls, the blocks, their instructions, their branch edges
\* and MayFreeBBs come out the same.
C23_SplitDeterministic ==
    opc = "split" => Cardinality(SplitResults(blocks, layouts, MayFreeBBs, splitTodo)) = 1

\* The single walk over a block: CheckedPtrs starts as BBIn of the block; a
\* check of an address in CheckedPtrs is redundant, any other check adds its
\* address; a store removes its destination.  The result is the set of the
\* redundant checks.
RECURSIVE SingleWalk(_, _)
SingleWalk(insts, CheckedPtrs) ==
    IF insts = <<>> THEN {}
    ELSE LET I == Head(insts)
         IN  CASE I.k = "check" /\ I.a \in CheckedPtrs ->
                    {I.id} \cup SingleWalk(Tail(insts), CheckedPtrs)
               [] I.k = "check" /\ I.a \notin CheckedPtrs ->
                    SingleWalk(Tail(insts), CheckedPtrs \cup {I.a})
               [] I.k = "store" -> SingleWalk(Tail(insts), CheckedPtrs \ {I.a})
               [] OTHER -> SingleWalk(Tail(insts), CheckedPtrs)

\* the ids of the instructions of a block
IdsOfBlock(blk) == {blk.insts[i].id : i \in DOMAIN blk.insts}

\* C26: for every block of a function, the checks of the block that Opt has
\* scheduled when the function's collection is over (the block-local walk
\* and the walk from the final BBIn together) are the checks the single walk
\* from the final BBIn finds redundant.
C26_TwoWalksAsOne ==
    [][opc = "collect" =>
        \A B \in Range(layouts[curFn]) :
            CheckToDel' \cap IdsOfBlock(blocks[B]) = SingleWalk(blocks[B].insts, BBIn[B])]_vars

\* a block entered with a checked address holds two checks of it, both scheduled
C26_Witness ==
    /\ opc = "erase"
    /\ \E B \in BlockIds(blocks) :
        \E i, j \in DOMAIN blocks[B].insts :
            /\ i < j
            /\ blocks[B].insts[i].k = "check" /\ blocks[B].insts[j].k = "check"
            /\ blocks[B].insts[i].a = blocks[B].insts[j].a
            /\ blocks[B].insts[i].a \in BBIn[B]
            /\ {blocks[B].insts[i].id, blocks[B].insts[j].id} \subseteq CheckToDel

\* the blocks that are not an entry block, have no predecessor and are not in MayFreeBBs
UnreachableBBs ==
    {B \in BlockIds(blocks) :
        /\ blocks[B].preds = <<>>
        /\ B \notin MayFreeBBs
        /\ \A f \in DOMAIN layouts : Head(layouts[f]) # B}

\* C27: for a block that is not an entry block, has no predecessor and is not
\* in MayFreeBBs, the propagation takes the intersection over the predecessors
\* as empty: the pass completes without reading a predecessor, BBIn of the block
\* stays empty and only its block-local redundant checks are scheduled.
C27_UnreachableBlockSkipped ==
    (opc \notin {"idle", "split"} /\ UnreachableBBs # {}) =>
        /\ opc # "crashed"
        /\ \A B \in UnreachableBBs :
            /\ BBIn[B] = {}
            /\ opc \in {"erase", "return", "done"} =>
                  CheckToDel \cap IdsOfBlock(optPre[B]) = SingleWalk(optPre[B].insts, {})

\* C28: after SplitBB every successor of a block in MayFreeBBs has that block
\* as its only predecessor; so a block with a predecessor in MayFreeBBs has it
\* as its first predecessor, the one Opt tests.
C28_SoleSuccessorOfMayFree ==
    opc \notin {"idle", "split"} =>
        /\ \A b \in MayFreeBBs : \A i \in DOMAIN blocks[b].succs :
              blocks[blocks[b].succs[i]].preds = <<b>>
        /\ \A B \in BlockIds(blocks) :
              (\E i \in DOMAIN blocks[B].preds : blocks[B].preds[i] \in MayFreeBBs)
                  => blocks[B].preds[1] \in MayFreeBBs

\* SplitBB has cut a may-free call off a block whose successor had two predecessors
C28_Witness ==
    /\ opc = "local"
    /\ \E b \in MayFreeBBs, x \in BlockIds(blocks) :
        /\ blocks[b].succs # <<>>
        /\ Len(blocks[x].preds) = 2
        /\ blocks[b].succs[1] \in Range(blocks[x].preds)
        /\ blocks[x].preds[1] # blocks[b].succs[1]

\* C29: with the checks hoisted before the calls, every may-free call is still
\* in a block of MayFreeBBs, and no check is erased that a may-free call
\* separates from the checks before it.
C29_HoistKeepsMayFreeBBs ==
    opc \notin {"idle", "split", "hoist"} =>
        /\ \A b \in BlockIds(blocks) : MayFreeIdx(blocks[b]) # {} => b \in MayFreeBBs
        /\ opc = "done" => \A id \in CheckToDel : Covered(optPre, layouts, id)

-----------------------------------------------------------------------------
(***************************************************************************)
(* Type harmonization (HarmonizeType.cpp)                                  *)
(***************************************************************************)
MaxFrags == 2       \* bound: code fragments a function is made of

\* Types.  The scalar types are those of the lock pass; mmptr is the aggregate
\* {T*, i64}, mmarrayptr the aggregate {T*, i64, i64*}.  A pointer type keeps
\* its element type.
PointerTy(t) == [k |-> "ptr", f |-> <<t.k>> \o t.f]
isPointerTy(ty) == ty.k = "ptr"
\* PointerType::getElementType
ElementType(ty) == [k |-> ty.f[1], f |-> Tail(ty.f)]
\* Type::isMMArrayPointerTy
isMMArrayPointerTy(ty) == ty.k = "scalar" /\ ty.f[1] = "mmarrayptr"
\* the type of field 0 of a safe-pointer aggregate: the raw pointer
Field0Ty(ty) == PointerTy(ScalarTy("i32"))

\* an argument of the function as an operand
ArgOpnd(name) == [k |-> "arg", n |-> 0, g |-> name, idx |-> 0]
\* p: an _Array_ptr variable, q: a _Ptr variable, r: a raw pointer
ArgTy(name) ==
    CASE name = "p" -> PointerTy(ScalarTy("mmarrayptr"))
      [] name = "q" -> PointerTy(ScalarTy("mmptr"))
      [] name = "r" -> PointerTy(ScalarTy("i32"))
      [] OTHER      -> ScalarTy("i32")

HInst(id, op, ty, a, b) ==
    [id |-> id, op |-> op, ty |-> ty, multi |-> FALSE, align |-> 0, a |-> a, b |-> b]
LoadInst(id, ty, ptr) == HInst(id, "load", ty, ptr, NoOpnd)
ExtractValueInst(id, ty, agg) == HInst(id, "extractvalue", ty, agg, ConstOpnd(0))
InsertValueInst(id, ty, agg, val) == HInst(id, "insertvalue", ty, agg, val)
GetElementPtrInst(id, ty, ptr) == HInst(id, "gep", ty, ptr, ConstOpnd(0))

\* Value::getType of an operand
TypeOfOpnd(fn, opnd) ==
    IF opnd.k = "arg" THEN ArgTy(opnd.g)
    ELSE IF opnd.k = "inst"
    THEN (CHOOSE x \in Range(fn) : x.id = opnd.n).ty
    ELSE ScalarTy("i32")

\* LoadInst::getPointerOperand is a; StoreInst::getValueOperand is a and
\* StoreInst::getPointerOperand is b
PointeeTyOfLoad(fn, LI) == ElementType(TypeOfOpnd(fn, LI.a))
PointeeTyOfStore(fn, SI) == ElementType(TypeOfOpnd(fn, SI.b))

\* the loads the scan finds ill-formed (lines 119-121)
IsIllFormedLoad(fn, I) ==
    /\ I.op = "load"
    /\ isMMSafePointerTy(PointeeTyOfLoad(fn, I))
    /\ ~isMMSafePointerTy(I.ty)

\* the stores the scan finds ill-formed (line 144)
IsIllFormedStore(fn, I) ==
    /\ I.op = "store"
    /\ isMMArrayPointerTy(PointeeTyOfStore(fn, I))
    /\ ~isMMArrayPointerTy(TypeOfOpnd(fn, I.a))

\* the ids of a sequence of instructions, in order
IdsOf(q) == [i \in DOMAIN q |-> q[i].id]

\* Mutant: the new load reads through the original pointer, without the GEP.
FixLoad_NoGEP(fn, id) ==
    LET p       == IndexOfId(fn, id)
        illLoad == fn[p]
        n       == MaxId(fn) + 1
        newLoad == LoadInst(n, illLoad.ty, illLoad.a)
        rauw    == [i \in DOMAIN fn |-> ReplaceOpnd(fn[i], InstOpnd(id), InstOpnd(n))]
    IN  SubSeq(rauw, 1, p - 1) \o <<newLoad>> \o SubSeq(rauw, p + 1, Len(rauw))

\* Mutant: the load of the whole aggregate is created for every ill-formed
\* load, with or without extractvalue and insertvalue users.
FixLoad_AlwaysFull(fn, id) ==
    LET p         == IndexOfId(fn, id)
        illLoad   == fn[p]
        InstToFix == {x.id : x \in {y \in Range(fn) :
                                      /\ y.op \in {"extractvalue", "insertvalue"}
                                      /\ (y.a = InstOpnd(id) \/ y.b = InstOpnd(id))}}
        n         == MaxId(fn) + 1
        pointeeTy == PointeeTyOfLoad(fn, illLoad)
        full      == <<LoadInst(n, pointeeTy, illLoad.a)>>
        GEP       == GetElementPtrInst(n + 1, PointerTy(Field0Ty(pointeeTy)), illLoad.a)
        newLoad   == LoadInst(n + 2, illLoad.ty, InstOpnd(n + 1))
        fixed     == [i \in DOMAIN fn |->
                        IF fn[i].id \in InstToFix
                        THEN ReplaceOpnd(fn[i], InstOpnd(id), InstOpnd(n))
                        ELSE fn[i]]
        rauw      == [i \in DOMAIN fixed |-> ReplaceOpnd(fixed[i], InstOpnd(id), InstOpnd(n + 2))]
    IN  SubSeq(rauw, 1, p - 1) \o full \o <<GEP, newLoad>> \o SubSeq(rauw, p + 1, Len(rauw))

\* Fix one ill-formed load (lines 154-184)
FixLoad(fn, id) ==
    LET p         == IndexOfId(fn, id)
        illLoad   == fn[p]
        InstToFix == {x.id : x \in {y \in Range(fn) :
                                      /\ y.op \in {"extractvalue", "insertvalue"}
                                      /\ (y.a = InstOpnd(id) \/ y.b = InstOpnd(id))}}
        n         == MaxId(fn) + 1
        pointeeTy == PointeeTyOfLoad(fn, illLoad)
        \* new LoadInst(pointeeTy, illLoad->getPointerOperand(), "FullMMArrayPtr", illLoad)
        full      == IF InstToFix = {} THEN <<>>
                     ELSE <<LoadInst(n, pointeeTy, illLoad.a)>>
        GEP       == GetElementPtrInst(n + 1, PointerTy(Field0Ty(pointeeTy)), illLoad.a)
        newLoad   == LoadInst(n + 2, illLoad.ty, InstOpnd(n + 1))
        fixed     == [i \in DOMAIN fn |->
                        IF fn[i].id \in InstToFix
                        THEN ReplaceOpnd(fn[i], InstOpnd(id), InstOpnd(n))
                        ELSE fn[i]]
        \* ReplaceInstWithInst: all other uses take the new load
        rauw      == [i \in DOMAIN fixed |-> ReplaceOpnd(fixed[i], InstOpnd(id), InstOpnd(n + 2))]
    IN  SubSeq(rauw, 1, p - 1) \o full \o <<GEP, newLoad>> \o SubSeq(rauw, p + 1, Len(rauw))

\* the instruction that produces the value operand of a store, as a set
ValueProducer(fn, SI) == {x \in Range(fn) : SI.a.k = "inst" /\ x.id = SI.a.n}

\* Fix one ill-formed store (lines 195-212), the assertion left aside
FixStore(fn, id) ==
    LET p        == IndexOfId(fn, id)
        illStore == fn[p]
        valueOp  == illStore.a
        aggTy    == PointeeTyOfStore(fn, illStore)
        n        == MaxId(fn) + 1
        \* valueOp->mutateType(...)
        mutated  == [i \in DOMAIN fn |->
                        IF InstOpnd(fn[i].id) = valueOp THEN [fn[i] EXCEPT !.ty = aggTy]
                        ELSE fn[i]]
        rawPtr   == ExtractValueInst(n, Field0Ty(aggTy), valueOp)
        \* the loads among valueOp->users() take rawPtr
        fixed    == [i \in DOMAIN mutated |->
                        IF mutated[i].op = "load"
                        THEN ReplaceOpnd(mutated[i], valueOp, InstOpnd(n))
                        ELSE mutated[i]]
    IN  SubSeq(fixed, 1, p - 1) \o <<rawPtr>> \o SubSeq(fixed, p, Len(fixed))

\* ---- the functions the pass is given: code the front end emits for
\* dereferences and increments of safe pointers, instruction ids from n + 1 on
RawPtrTy == PointerTy(ScalarTy("i32"))

\* a well-formed load of a whole _Ptr and a use of it
WellFormedLoad(n) ==
    << LoadInst(n + 1, ScalarTy("mmptr"), ArgOpnd("q")),
       UserInst(n + 2, InstOpnd(n + 1)) >>

\* *q or *p: the raw pointer is loaded through the pointer to the aggregate
Deref(n, arg) ==
    << LoadInst(n + 1, RawPtrTy, ArgOpnd(arg)),
       LoadInst(n + 2, ScalarTy("i32"), InstOpnd(n + 1)) >>

\* *p++ : the ill-formed load feeds extractvalue and insertvalue; other says
\* whether the ill-formed load has another user as well
PostInc(n, other) ==
    << LoadInst(n + 1, RawPtrTy, ArgOpnd("p")),
       ExtractValueInst(n + 2, RawPtrTy, InstOpnd(n + 1)),
       GetElementPtrInst(n + 3, RawPtrTy, InstOpnd(n + 2)),
       InsertValueInst(n + 4, RawPtrTy, InstOpnd(n + 1), InstOpnd(n + 3)),
       StoreInst(n + 5, InstOpnd(n + 4), ArgOpnd("p")) >>
    \o (IF other THEN <<UserInst(n + 6, InstOpnd(n + 1))>> ELSE <<>>)

\* *++p read (write = FALSE) or written (write = TRUE): the insertvalue has
\* the mutated type, is stored into p and is used as the address
PreInc(n, write) ==
    << LoadInst(n + 1, ScalarTy("mmarrayptr"), ArgOpnd("p")),
       ExtractValueInst(n + 2, RawPtrTy, InstOpnd(n + 1)),
       GetElementPtrInst(n + 3, RawPtrTy, InstOpnd(n + 2)),
       InsertValueInst(n + 4, RawPtrTy, InstOpnd(n + 1), InstOpnd(n + 3)),
       StoreInst(n + 5, InstOpnd(n + 4), ArgOpnd("p")),
       IF write THEN StoreInst(n + 6, ArgOpnd("v"), InstOpnd(n + 4))
       ELSE LoadInst(n + 6, ScalarTy("i32"), InstOpnd(n + 4)) >>

\* a raw pointer put into a _Ptr: the insertvalue has the mutated type and is
\* stored through the pointer to the single-ptr aggregate
StorePtr(n) ==
    << LoadInst(n + 1, ScalarTy("mmptr"), ArgOpnd("q")),
       InsertValueInst(n + 2, RawPtrTy, InstOpnd(n + 1), ArgOpnd("r")),
       StoreInst(n + 3, InstOpnd(n + 2), ArgOpnd("q")) >>

\* a raw pointer that no insertvalue produced, stored into an _Array_ptr
StoreRaw(n) ==
    << GetElementPtrInst(n + 1, RawPtrTy, ArgOpnd("r")),
       StoreInst(n + 2, InstOpnd(n + 1), ArgOpnd("p")) >>

FragKinds == {"load", "deref_q", "deref_p", "postinc", "postinc_use",
              "preinc_read", "preinc_write", "storeptr", "storeraw"}

Fragment(kind, n) ==
    CASE kind = "load"         -> WellFormedLoad(n)
      [] kind = "deref_q"      -> Deref(n, "q")
      [] kind = "deref_p"      -> Deref(n, "p")
      [] kind = "postinc"      -> PostInc(n, FALSE)
      [] kind = "postinc_use"  -> PostInc(n, TRUE)
      [] kind = "preinc_read"  -> PreInc(n, FALSE)
      [] kind = "preinc_write" -> PreInc(n, TRUE)
      [] kind = "storeptr"     -> StorePtr(n)
      [] OTHER                 -> StoreRaw(n)

RECURSIVE FunctionOf(_, _)
\* the function made of the fragments of the given kinds
FunctionOf(kinds, n) ==
    IF kinds = <<>> THEN <<>>
    ELSE LET frag == Fragment(Head(kinds), n)
         IN  frag \o FunctionOf(Tail(kinds), n + Len(frag))

HtIdle ==
    /\ hfn = <<>>
    /\ hpre = <<>>
    /\ illFormedLoads = <<>>
    /\ illFormedStores = <<>>
    /\ change = FALSE
    /\ hret = <<>>
    /\ hpc = "idle"

HtStart ==
    /\ \E kinds \in SeqsUpTo(FragKinds, MaxFrags) : hfn = FunctionOf(kinds, 0)
    /\ hpre = hfn
    /\ illFormedLoads = <<>>
    /\ illFormedStores = <<>>
    /\ change = FALSE
    /\ hret = <<>>
    /\ hpc = "scan"

\* the loop over the instructions of F (lines 112-150)
HtScan ==
    /\ hpc = "scan"
    /\ illFormedLoads' = IdsOf(SelectSeq(hfn, LAMBDA I : IsIllFormedLoad(hfn, I)))
    /\ illFormedStores' = IdsOf(SelectSeq(hfn, LAMBDA I : IsIllFormedStore(hfn, I)))
    /\ change' = (\E i \in DOMAIN hfn : IsIllFormedLoad(hfn, hfn[i]))
    /\ hpc' = "loads"
    /\ UNCHANGED <<hfn, hpre, hret>>

\* one iteration of the loop over illFormedLoads (lines 153-185)
HtFixLoad ==
    /\ hpc = "loads" /\ illFormedLoads # <<>>
    /\ hfn' = FixLoad(hfn, Head(illFormedLoads))
    /\ illFormedLoads' = Tail(illFormedLoads)
    /\ UNCHANGED <<hpre, illFormedStores, change, hret, hpc>>

HtLoadsDone ==
    /\ hpc = "loads" /\ illFormedLoads = <<>>
    /\ hpc' = "stores"
    /\ UNCHANGED <<hfn, hpre, illFormedLoads, illFormedStores, change, hret>>

\* one iteration of the loop over illFormedStores (lines 188-213).  The assert
\* of line 193 ends the run in a build with assertions; a build without them
\* goes on with whatever produced the value.
HtFixStore ==
    /\ hpc = "stores" /\ illFormedStores # <<>>
    /\ LET illStore == hfn[IndexOfId(hfn, Head(illFormedStores))]
           isInsert == \E x \in ValueProducer(hfn, illStore) : x.op = "insertvalue"
       IN  \/ /\ ~isInsert
              /\ hpc' = "fatal"
              /\ UNCHANGED <<hfn, illFormedStores>>
           \/ /\ hfn' = FixStore(hfn, Head(illFormedStores))
              /\ illFormedStores' = Tail(illFormedStores)
              /\ hpc' = hpc
    /\ UNCHANGED <<hpre, illFormedLoads, change, hret>>

\* return change;
HtReturn ==
    /\ hpc = "stores" /\ illFormedStores = <<>>
    /\ hret' = Append(hret, change)
    /\ hpc' = "done"
    /\ UNCHANGED <<hfn, hpre, illFormedLoads, illFormedStores, change>>

HtSteps == HtScan \/ HtFixLoad \/ HtLoadsDone \/ HtFixStore \/ HtReturn

-----------------------------------------------------------------------------
(***************************************************************************)
(* Properties of the type harmonization (checked under SpecHt)             *)
(***************************************************************************)
\* a load whose result type is the element type of its pointer operand's type
WellTypedLoad(fn, I) ==
    /\ isPointerTy(TypeOfOpnd(fn, I.a))
    /\ I.ty = ElementType(TypeOfOpnd(fn, I.a))

\* a store whose value type is the element type of its pointer operand's type
WellTypedStore(fn, I) ==
    /\ isPointerTy(TypeOfOpnd(fn, I.b))
    /\ TypeOfOpnd(fn, I.a) = ElementType(TypeOfOpnd(fn, I.b))

\* the ill-formed load L of the old function is gone from fn, nothing uses it,
\* and fn holds a GEP {0, 0} on L's pointer operand with a load through it
\* whose type is the type of field 0 of the aggregate
ReplacedByGEPAndLoad(old, fn, L) ==
    /\ InstsWithId(fn, L.id) = {}
    /\ \A x \in Range(fn) : x.a # InstOpnd(L.id) /\ x.b # InstOpnd(L.id)
    /\ \E g \in Range(fn), nl \in Range(fn) :
        /\ g.op = "gep" /\ g.a = L.a /\ g.b = ConstOpnd(0)
        /\ InstsWithId(old, g.id) = {}
        /\ nl.op = "load" /\ nl.a = InstOpnd(g.id)
        /\ nl.ty = Field0Ty(PointeeTyOfLoad(old, L))
        /\ IndexIn(fn, g) + 1 = IndexIn(fn, nl)

C15_StoresWellTyped ==
    hpc = "done" => \A I \in Range(hfn) : I.op = "store" => WellTypedStore(hfn, I)

\* C16: runOnFunction returns true if and only if it modified the function.
C16_ReturnsTrueIffModified ==
    hpc = "done" => (hret[1] = (hfn # hpre))

\* C24: at an ill-formed store whose value is not produced by an insertvalue
\* the pass ends in a fatal error: it does not change the type of the value,
\* insert an extractvalue for it or rewrite a load that uses it.
C24_UnknownStoreIsFatal ==
    [][(/\ hpc = "stores" /\ illFormedStores # <<>>
        /\ \A x \in ValueProducer(hfn, hfn[IndexOfId(hfn, Head(illFormedStores))]) :
              x.op # "insertvalue")
       => (hpc' = "fatal" /\ hfn' = hfn)]_vars

\* the users of the instruction with this id
UsersOf(fn, id) == {x \in Range(fn) : x.a = InstOpnd(id) \/ x.b = InstOpnd(id)}

\* the extractvalue and insertvalue instructions among them
AggUsersOf(fn, id) == {x \in UsersOf(fn, id) : x.op \in {"extractvalue", "insertvalue"}}

\* new is old after the repair of the ill-formed load with this id
LoadRepaired(old, new, id) ==
    LET L     == old[IndexOfId(old, id)]
        added == {x \in Range(new) : InstsWithId(old, x.id) = {}}
        aggs  == {x \in added : x.op = "load" /\ x.a = L.a /\ x.ty = PointeeTyOfLoad(old, L)}
        raws  == {x \in added : /\ x.op = "load" /\ x.ty = L.ty
                                /\ \E g \in added : /\ g.op = "gep" /\ g.a = L.a
                                                     /\ g.b = ConstOpnd(0)
                                                     /\ x.a = InstOpnd(g.id)}
    IN  \* the load of the whole aggregate is there exactly when it is needed,
        \* and it stands before the place of L
        /\ Cardinality(aggs) = IF AggUsersOf(old, id) = {} THEN 0 ELSE 1
        /\ \A x \in aggs : IndexIn(new, x) = IndexOfId(old, id)
        /\ Cardinality(raws) = 1
        /\ Cardinality(added) = Cardinality(aggs) + 2
        \* L is erased and nothing uses it
        /\ InstsWithId(new, id) = {}
        /\ UsersOf(new, id) = {}
        \* every other instruction is kept, and the users of L have new operands
        /\ \A u \in Range(old) : u.id # id =>
              \E v \in Range(new) :
                 /\ v.id = u.id
                 /\ IF u \in AggUsersOf(old, id)
                    THEN \E x \in aggs : v = ReplaceOpnd(u, InstOpnd(id), InstOpnd(x.id))
                    ELSE \E x \in raws : v = ReplaceOpnd(u, InstOpnd(id), InstOpnd(x.id))

\* C25: the repair of an ill-formed load L inserts a load of the whole aggregate
\* from L's pointer before L exactly when L has an extractvalue or insertvalue
\* user; afterwards these users use the aggregate load, every other user of L
\* uses the new load of the raw pointer through the GEP {0, 0}, and L is erased.
C25_LoadRepair ==
    [][(hpc = "loads" /\ illFormedLoads # <<>>)
       => LoadRepaired(hfn, hfn', Head(illFormedLoads))]_vars

\* the loads are repaired in a function whose ill-formed load fed an
\* extractvalue, an insertvalue and another user, and that had another
\* ill-formed load with none of the first two
C25_Witness ==
    /\ hpc = "stores"
    /\ \E L \in Range(hpre), M \in Range(hpre) :
        /\ IsIllFormedLoad(hpre, L) /\ IsIllFormedLoad(hpre, M)
        /\ AggUsersOf(hpre, L.id) # {}
        /\ UsersOf(hpre, L.id) \ AggUsersOf(hpre, L.id) # {}
        /\ AggUsersOf(hpre, M.id) = {}
        /\ UsersOf(hpre, M.id) # {}
        /\ InstsWithId(hfn, L.id) = {} /\ InstsWithId(hfn, M.id) = {}

-----------------------------------------------------------------------------
(***************************************************************************)
(* Specifications                                                          *)
(***************************************************************************)
LockInit == LockStart /\ FFIdle /\ CfgIdle /\ HtIdle
LockNext == LockSteps /\ UNCHANGED <<ffVars, cfgVars, htVars>>
SpecLock == LockInit /\ [][LockNext]_vars

FFInit == FFStart /\ LockIdle /\ CfgIdle /\ HtIdle
FFNext == FFSteps /\ UNCHANGED <<lockVars, cfgVars, htVars>>
SpecFF == FFInit /\ [][FFNext]_vars

\* CheckedCSplitBB followed by CheckedCKeyCheckOpt
PipeInit == PipeStart /\ LockIdle /\ FFIdle /\ HtIdle
PipeNext == (SplitSteps \/ OptSteps) /\ UNCHANGED <<lockVars, ffVars, htVars>>
SpecPipe == PipeInit /\ [][PipeNext]_vars

\* CheckedCKeyCheckOpt for any set MayFreeBBs
OptInit == OptStart /\ LockIdle /\ FFIdle /\ HtIdle
OptNext == OptSteps /\ UNCHANGED <<lockVars, ffVars, htVars>>
SpecOpt == OptInit /\ [][OptNext]_vars

HoistInit == HoistStart /\ LockIdle /\ FFIdle /\ HtIdle
HoistNext == HoistSteps /\ UNCHANGED <<lockVars, ffVars, htVars>>
SpecHoist == HoistInit /\ [][HoistNext]_vars

\* HarmonizeType on one function
HtInit == HtStart /\ LockIdle /\ FFIdle /\ CfgIdle
HtNext == HtSteps /\ UNCHANGED <<lockVars, ffVars, cfgVars>>
SpecHt == HtInit /\ [][HtNext]_vars

=============================================================================
